---- MODULE Spec2Model ----
(***************************************************************************)
(* State-machine model of the data-reliability gatekeeper.                 *)
(*                                                                         *)
(* Part I   MonitorAgent.run (agents/monitor_agent.py) with its tools      *)
(*          FileMetadataTool, DataLoaderTool, SchemaValidatorTool,         *)
(*          ConsistencyCheckTool, StatsAnalysisTool, DriftCheckTool and    *)
(*          SeasonalDetector.                         specification: Spec  *)
(* Part II  MonitorAgent.evaluate_data_file (src/agents/monitor_agent.py)  *)
(*          with AnomalyDetector, ImpactAnalyzer and DorisLoader.          *)
(*                                                specification: SpecEval  *)
(* Part III SchemaRemediator.propose_schema_update and its two safety      *)
(*          gates.                          specification: SpecRemediator  *)
(* Part IV  Applying a contract: MonitorAgent.remediate_schema and         *)
(*          save_contract with their backups.  specification: SpecContract *)
(*                                                                         *)
(* All specifications share one initial state; the actions of each leave   *)
(* the variables of the others unchanged.                                  *)
(***************************************************************************)
EXTENDS Integers, Sequences, FiniteSets, TLC

(***************************************************************************)
(* Bounds of the model.                                                    *)
(***************************************************************************)
MaxRuns == 2
MaxDay == 8

(***************************************************************************)
(* Program constants.                                                      *)
(***************************************************************************)
DefaultFreshnessHours == 24
LookbackDays == 7
DriftThresholdPct == 30
MinDowSamples == 3
MinMonthSamples == 2
DaysPerMonth == 30

(***************************************************************************)
(* The environment: tables, their contracts, and the files on disk.        *)
(* A file is identified by its content hash; hash 0 stands for a path at   *)
(* which no file exists.  Everything a tool derives from the bytes of a    *)
(* file (rows, column means, schema violations, foreign-key outcome) is a  *)
(* function of the hash.                                                   *)
(***************************************************************************)
Tables == {"orders", "events", "users"}

NoContract == [found |-> FALSE, freshness |-> 0, nfk |-> 0]

\* contracts/orders.yaml: freshness rule "12h", two foreignKeys entries.
\* contracts/events.yaml: no freshness rule, no foreignKeys.
\* users: no contract in the registry.
InitialContracts ==
    [t \in Tables |->
        CASE t = "orders" -> [found |-> TRUE, freshness |-> 12, nfk |-> 2]
          [] t = "events" -> [found |-> TRUE, freshness |-> 0, nfk |-> 0]
          [] OTHER -> NoContract]

Hashes == 1..7
MissingFile == 0
Paths == Hashes \cup {MissingFile}

\* fk[i] is what the i-th foreignKeys entry of a contract finds in the file:
\* "ok" no orphan, "orphans" some child key absent from the reference,
\* "nocol" the key column is absent from the data, "noref" the reference
\* csv does not exist.
FileContent(h) ==
    CASE h = 1 -> [loadable |-> TRUE, rows |-> 10, mean |-> 5,
                   violations |-> <<>>, fk |-> <<"ok", "ok">>, orphans |-> <<0, 0>>]
      [] h = 2 -> [loadable |-> TRUE, rows |-> 12, mean |-> 10,
                   violations |-> <<"WARNING">>, fk |-> <<"ok", "orphans">>, orphans |-> <<0, 3>>]
      [] h = 3 -> [loadable |-> TRUE, rows |-> 20, mean |-> 5,
                   violations |-> <<"WARNING", "CRITICAL">>, fk |-> <<"ok", "ok">>, orphans |-> <<0, 0>>]
      [] h = 4 -> [loadable |-> FALSE, rows |-> 0, mean |-> 0,
                   violations |-> <<>>, fk |-> <<"ok", "ok">>, orphans |-> <<0, 0>>]
      [] h = 5 -> [loadable |-> TRUE, rows |-> 10, mean |-> 5,
                   violations |-> <<>>, fk |-> <<"orphans", "ok">>, orphans |-> <<2, 0>>]
      [] h = 6 -> [loadable |-> TRUE, rows |-> 10, mean |-> 5,
                   violations |-> <<>>, fk |-> <<"nocol", "ok">>, orphans |-> <<0, 0>>]
      [] OTHER -> [loadable |-> TRUE, rows |-> 20, mean |-> 10,
                   violations |-> <<>>, fk |-> <<"noref", "ok">>, orphans |-> <<0, 0>>]

\* File ages (hours) offered to a run: around both freshness limits.
Ages == {12, 13, 25}

VARIABLES
    contracts,          \* the contract registry: table -> contract
    location,           \* where each file lies: landing / staging / quarantine / missing
    today,              \* the calendar day
    seen_hashes,        \* FileMetadataTool.seen_hashes of the live agent
    metrics_history,    \* rows of the metrics_history table
    seasonal_patterns,  \* rows of the seasonal_patterns table
    monthly_patterns,   \* rows of the monthly_patterns table
    execution_log,      \* MonitorAgent.execution_log
    pc,                 \* position of the run in MonitorAgent.run
    run,                \* the run's arguments and locals
    report,             \* the report returned by the last finished run
    runs,               \* number of runs started
    start_snapshot,     \* history store as it was when the run started
    prev                \* what the previous run of this agent returned

runVars == <<contracts, location, today, seen_hashes, metrics_history,
             seasonal_patterns, monthly_patterns, execution_log, pc, run,
             report, runs, start_snapshot, prev>>

\* State of the evaluation pipeline (src/agents/monitor_agent.py,
\* MonitorAgent.evaluate_data_file) and of its DuckDB system tables.
VARIABLES
    metric_history,     \* rows of the metric_history table
    run_history,        \* rows of the run_history table
    dataset_registry,   \* the dataset_registry table: dataset -> row
    schema_passes,      \* dataset -> number of runs that passed Stage A
    eval_pc,            \* position of the run in evaluate_data_file
    verdict,            \* the verdict dictionary of the run
    eval,               \* the run's arguments and what it has done so far
    evals               \* number of evaluate_data_file runs started

evalVars == <<metric_history, run_history, dataset_registry, schema_passes,
              eval_pc, verdict, eval, evals>>

\* State of the schema remediator (src/tools/schema_remediator.py,
\* SchemaRemediator.propose_schema_update): the last call and its answer.
VARIABLES
    current_yaml,       \* the contract text handed to the call
    llm_response,       \* what the LLM agent answered
    returned_yaml       \* the text propose_schema_update returned

remVars == <<current_yaml, llm_response, returned_yaml>>

\* State of the contract files and their archives
\* (MonitorAgent.remediate_schema, backend/main.py save_contract).
VARIABLES
    now,                \* the wall clock, in seconds
    expectation_file,   \* config/expectations/<dataset>.yaml
    backups,            \* the .backup_<timestamp> files beside it
    contract_file,      \* contracts/<table>.yaml
    archive,            \* the files of contracts/archive
    applies,            \* number of applies so far
    last_apply          \* what the last apply found and did

conVars == <<now, expectation_file, backups, contract_file, archive, applies,
             last_apply>>

\* State of the command line (main.py): one process per invocation.
VARIABLES
    cli_pc,             \* position of the process in main / run_autonomous_pipeline
    cli,                \* its arguments and what the pipeline has answered
    exit_code           \* the exit code of the last process

cliVars == <<cli_pc, cli, exit_code>>

\* State of evaluate_all: the data files on disk, the lifecycle written in
\* each contract, and the scan in progress.
VARIABLES
    mtime,              \* st_mtime of every path, in ticks of MtimeTickMs
    lifecycle,          \* info.lifecycle of every dataset's contract
    scan_pc,            \* position of evaluate_all
    scan                \* its argument, the datasets still to visit, its results

scanVars == <<mtime, lifecycle, scan_pc, scan>>

\* State of the system tables under concurrent writers: the rows of
\* dataset_registry and learned_thresholds for one table and one metric,
\* and the connection each writer holds.
VARIABLES
    registry_rows,      \* rows of dataset_registry for the table
    threshold_rows,     \* rows of learned_thresholds for the (table, metric)
    writer,             \* per writer: the call in progress and what it has read
    store_calls         \* the calls made so far, by kind, and how they went

storeVars == <<registry_rows, threshold_rows, writer, store_calls>>

\* State of one MonitorAgent entered by two threads at once: the attributes
\* of the agent the runs share, the list objects they point to, and each
\* thread's own position.
VARIABLES
    clock,              \* datetime.now()
    self_start_time,    \* self.start_time
    self_execution_log, \* self.execution_log: the list object it is bound to
    lists,              \* the list objects created by run(), by creator
    thread              \* per thread: position, own steps, returned report

threadVars == <<clock, self_start_time, self_execution_log, lists, thread>>

\* State of the file actuator: the entries of the three directories and
\* the wall clock its quarantine names are stamped with.
VARIABLES
    landing_dir,        \* file names in data/landing
    staging_dir,        \* file names in data/staging
    quarantine_dir,     \* file names in data/quarantine
    wall_clock,         \* datetime.now(), to the second
    moves               \* moves made so far

actuatorVars == <<landing_dir, staging_dir, quarantine_dir, wall_clock, moves>>

\* State of the schema tools: the DataFrame at hand, the contract file the
\* validator reads, and what the validator has answered.
VARIABLES
    table_x,            \* the loaded DataFrame
    contract_k,         \* the contract file: a draft or a written contract
    draft_of,           \* the DataFrame the draft was inferred from
    validation          \* the report of SchemaValidatorTool.run

schemaVars == <<table_x, contract_k, draft_of, validation>>

\* State of MonitorAgent._record_run beside the system tables: the calls
\* made to AlertRouter.send_alert and what the last recording did.
VARIABLES
    alert_calls,        \* the verdict statuses handed to send_alert, in order
    recorded,           \* the last _record_run call and the verdict returned
    record_calls        \* how many _record_run calls have been made

recVars == <<alert_calls, recorded, record_calls>>

\* State of the seasonal step over the passing runs of MonitorAgent.run.
VARIABLES
    passing_runs,       \* the runs that reached the seasonal step, in order
    last_seasonal       \* what check_anomaly answered to the last of them

seasVars == <<passing_runs, last_seasonal>>

\* The variables of MonitorAgent.run other than the calendar.
runOnlyVars == <<contracts, location, seen_hashes, metrics_history,
                 seasonal_patterns, monthly_patterns, execution_log, pc, run,
                 report, runs, start_snapshot, prev>>

\* What each part of the program leaves alone.
notRunVars == <<evalVars, remVars, conVars, cliVars, scanVars, storeVars, threadVars, actuatorVars, schemaVars, recVars, seasVars>>

notEvalVars == <<runOnlyVars, remVars, conVars, cliVars, scanVars, storeVars, threadVars, actuatorVars, schemaVars, recVars, seasVars>>

notRemVars == <<today, runOnlyVars, evalVars, conVars, cliVars, scanVars, storeVars, threadVars, actuatorVars, schemaVars, recVars, seasVars>>

notConVars == <<today, runOnlyVars, evalVars, remVars, cliVars, scanVars, storeVars, threadVars, actuatorVars, schemaVars, recVars, seasVars>>

notCliVars == <<today, runOnlyVars, evalVars, remVars, conVars, scanVars, storeVars, threadVars, actuatorVars, schemaVars, recVars, seasVars>>

notScanVars == <<today, runOnlyVars, evalVars, remVars, conVars, cliVars, storeVars, threadVars, actuatorVars, schemaVars, recVars, seasVars>>

notRunCliVars == <<evalVars, remVars, conVars, scanVars, storeVars, threadVars, actuatorVars, schemaVars, recVars, seasVars>>

notEvalScanVars == <<today, runOnlyVars, remVars, conVars, cliVars, storeVars, threadVars, actuatorVars, schemaVars, recVars, seasVars>>

notStoreVars == <<today, runOnlyVars, evalVars, remVars, conVars, cliVars, scanVars, threadVars, actuatorVars, schemaVars, recVars, seasVars>>

notThreadVars == <<today, runOnlyVars, evalVars, remVars, conVars, cliVars, scanVars, storeVars, actuatorVars, schemaVars, recVars, seasVars>>

notActuatorVars == <<today, runOnlyVars, evalVars, remVars, conVars, cliVars, scanVars, storeVars, threadVars, schemaVars, recVars, seasVars>>

notSchemaVars == <<today, runOnlyVars, evalVars, remVars, conVars, cliVars, scanVars, storeVars, threadVars, actuatorVars, recVars, seasVars>>

notRecVars == <<today, runOnlyVars, evalVars, remVars, conVars, cliVars, scanVars, storeVars, threadVars, actuatorVars, schemaVars, seasVars>>

notEvalRecVars == <<today, runOnlyVars, remVars, conVars, cliVars, scanVars, storeVars, threadVars, actuatorVars, schemaVars, seasVars>>

notSeasVars == <<today, runOnlyVars, evalVars, remVars, conVars, cliVars, scanVars, storeVars, threadVars, actuatorVars, schemaVars, recVars>>

notRunSeasVars == <<evalVars, remVars, conVars, cliVars, scanVars, storeVars, threadVars, actuatorVars, schemaVars, recVars>>

vars == <<runVars, evalVars, remVars, conVars, cliVars, scanVars, storeVars, threadVars, actuatorVars, schemaVars, recVars, seasVars>>

(***************************************************************************)
(* Helpers.                                                                *)
(***************************************************************************)
Abs(x) == IF x < 0 THEN -x ELSE x

RECURSIVE SumSeq(_)
SumSeq(s) == IF s = <<>> THEN 0 ELSE Head(s) + SumSeq(Tail(s))

RECURSIVE SelectRows(_, _)
SelectRows(s, keep) ==
    IF s = <<>> THEN <<>>
    ELSE IF keep[1] THEN <<Head(s)>> \o SelectRows(Tail(s), Tail(keep))
    ELSE SelectRows(Tail(s), Tail(keep))

IsPrefix(s, t) == Len(s) <= Len(t) /\ SubSeq(t, 1, Len(s)) = s

Reason(msg, n) == [msg |-> msg, n |-> n]

NoResult == [status |-> "none", decision |-> "none"]

NoReport == [status |-> "NONE", critical_errors |-> <<>>, warnings |-> <<>>,
             execution_log |-> <<>>, inferred_contract |-> FALSE,
             file |-> MissingFile, table_name |-> "none"]

IdleRun == [file |-> MissingFile, table |-> "none",
            found |-> FALSE, freshness_limit |-> 0,
            metadata |-> NoResult, load |-> NoResult, schema |-> NoResult,
            consistency |-> NoResult, drift |-> NoResult,
            seasonal |-> NoResult]

NoPrev == [valid |-> FALSE, table |-> "none", file |-> MissingFile,
           probe |-> "none", status |-> "NONE", critical_errors |-> {},
           history |-> <<>>]

Weekday(day) == day % 7

Month(day) == ((day \div DaysPerMonth) % 12) + 1

(***************************************************************************)
(* MonitorAgent._find_contract and the freshness rule of the contract.     *)
(***************************************************************************)
FindContract(t) == contracts[t]

FreshnessLimit(c) ==
    IF c.found /\ c.freshness # 0 THEN c.freshness ELSE DefaultFreshnessHours

(***************************************************************************)
(* FileMetadataTool.run: existence, duplicate hash, freshness.             *)
(***************************************************************************)
FileExists(p) == p # MissingFile /\ location[p] = "landing"

IsFresh(age_hours, freshness_limit) == age_hours <= freshness_limit

FileMetadataToolRun(p, age_hours, freshness_limit, seen) ==
    IF ~FileExists(p)
    THEN [status |-> "missing", decision |-> "STOP", hash |-> MissingFile,
          reason |-> Reason("File not found", 0)]
    ELSE IF p \in seen
    THEN [status |-> "duplicate", decision |-> "STOP", hash |-> p,
          reason |-> Reason("File hash already processed", 0)]
    ELSE IF IsFresh(age_hours, freshness_limit)
    THEN [status |-> "fresh", decision |-> "CONTINUE", hash |-> p,
          reason |-> Reason("None", 0)]
    ELSE [status |-> "stale", decision |-> "STOP", hash |-> p,
          reason |-> Reason("File is old", age_hours)]

MarkSeenNever(res, seen) == seen

MarkSeen(res, seen) ==
    IF res.status = "fresh" THEN seen \cup {res.hash} ELSE seen

(***************************************************************************)
(* DataLoaderTool.run (files below the sampling threshold).                *)
(***************************************************************************)
DataLoaderToolRun(p) ==
    IF FileContent(p).loadable
    THEN [status |-> "success", decision |-> "CONTINUE",
          rows_loaded |-> FileContent(p).rows,
          reason |-> Reason("None", 0)]
    ELSE [status |-> "error", decision |-> "CRITICAL_STOP", rows_loaded |-> 0,
          reason |-> Reason("Failed to load file", 0)]

(***************************************************************************)
(* SchemaValidatorTool.run: the decision from the violations found.        *)
(***************************************************************************)
HasCritical(violations) ==
    \E i \in 1..Len(violations) : violations[i] = "CRITICAL"

CountSeverity(violations, sev) ==
    Cardinality({i \in 1..Len(violations) : violations[i] = sev})

SchemaValidatorToolRun(p) ==
    LET violations == FileContent(p).violations IN
    IF HasCritical(violations)
    THEN [status |-> "FAIL", decision |-> "CRITICAL_STOP", violations |-> violations]
    ELSE IF violations # <<>>
    THEN [status |-> "PASS_WITH_WARNINGS", decision |-> "CONTINUE", violations |-> violations]
    ELSE [status |-> "PASS", decision |-> "CONTINUE", violations |-> violations]

(***************************************************************************)
(* ConsistencyCheckTool.run: only the first foreignKeys entry is checked.  *)
(* has_counts tells whether the result carries orphan_count, orphan_pct,   *)
(* relationship and sample_orphans.                                        *)
(***************************************************************************)
ConsistencyCheckToolRun(p, c) ==
    IF ~c.found \/ c.nfk = 0
    THEN [status |-> "SKIPPED", decision |-> "none", has_counts |-> FALSE, orphan_count |-> 0]
    ELSE LET outcome == FileContent(p).fk[1]
             orphan_count == FileContent(p).orphans[1] IN
         CASE outcome = "nocol" ->
                [status |-> "FAIL", decision |-> "none", has_counts |-> FALSE, orphan_count |-> 0]
           [] outcome = "noref" ->
                [status |-> "ERROR", decision |-> "none", has_counts |-> FALSE, orphan_count |-> 0]
           [] OTHER ->
                [status |-> IF orphan_count > 0 THEN "FAIL" ELSE "PASS",
                 decision |-> IF orphan_count > 0 THEN "CRITICAL_STOP" ELSE "CONTINUE",
                 has_counts |-> TRUE, orphan_count |-> orphan_count]

(***************************************************************************)
(* DriftCheckTool.run and DriftCheckTool.save_current_run.                 *)
(***************************************************************************)
HistoricalRows(t, history, day) ==
    SelectRows(history,
               [i \in 1..Len(history) |->
                    history[i].table_name = t /\ history[i].day >= day - LookbackDays])

Deviates(current, total, n) ==
    Abs(current * n - total) * 100 > DriftThresholdPct * Abs(total)

DriftCheckToolRun(t, row_count, mean, history, day) ==
    LET rows == HistoricalRows(t, history, day)
        n == Len(rows)
        sum_rows == SumSeq([i \in 1..n |-> rows[i].row_count])
        sum_mean == SumSeq([i \in 1..n |-> rows[i].mean])
        row_warn == IF sum_rows > 0 /\ Deviates(row_count, sum_rows, n)
                    THEN <<"Drift: row_count">> ELSE <<>>
        mean_warn == IF sum_mean # 0 /\ Deviates(mean, sum_mean, n)
                     THEN <<"Drift: amount_mean">> ELSE <<>>
    IN  IF n = 0
        THEN [status |-> "NO_BASELINE", decision |-> "CONTINUE", drift_warnings |-> <<>>]
        ELSE [status |-> IF row_warn \o mean_warn # <<>> THEN "DRIFT_DETECTED" ELSE "PASS",
              decision |-> "CONTINUE", drift_warnings |-> row_warn \o mean_warn]

save_current_run(history, t, file_hash, row_count, mean, day) ==
    Append(history, [table_name |-> t, file_hash |-> file_hash,
                     row_count |-> row_count, mean |-> mean, day |-> day])

(***************************************************************************)
(* SeasonalDetector.  A pattern row keeps the sum, the sum of squares and  *)
(* the number of the samples it was learnt from: expected_mean = sum / n   *)
(* and expected_std^2 = (n * sumsq - sum^2) / n^2.                         *)
(***************************************************************************)
RECURSIVE GroupRows(_, _, _, _, _, _)
GroupRows(t, metric, records, keys, keyOf, min_samples) ==
    IF keys = <<>> THEN <<>>
    ELSE LET k == Head(keys)
             idx == {i \in 1..Len(records) : keyOf[records[i].day] = k}
             vals == SelectRows(records, [i \in 1..Len(records) |-> i \in idx])
             n == Len(vals)
             row == [table_name |-> t, metric_name |-> metric, key |-> k,
                     sum |-> SumSeq([i \in 1..n |-> vals[i].value]),
                     sumsq |-> SumSeq([i \in 1..n |-> vals[i].value * vals[i].value]),
                     sample_count |-> n]
         IN (IF n >= min_samples THEN <<row>> ELSE <<>>)
            \o GroupRows(t, metric, records, Tail(keys), keyOf, min_samples)

learn_patterns(t, metric, historical_data) ==
    LET days == {historical_data[i].day : i \in 1..Len(historical_data)} IN
    [seasonal |-> GroupRows(t, metric, historical_data, <<0, 1, 2, 3, 4, 5, 6>>,
                            [d \in days |-> Weekday(d)], MinDowSamples),
     monthly |-> GroupRows(t, metric, historical_data,
                           <<1, 2, 3, 4, 5, 6, 7, 8, 9, 10, 11, 12>>,
                           [d \in days |-> Month(d)], MinMonthSamples)]

\* cursor.fetchone(): the first row that matches, or none.
FetchOne(patterns, t, metric, k) ==
    LET idx == {i \in 1..Len(patterns) :
                    /\ patterns[i].table_name = t
                    /\ patterns[i].metric_name = metric
                    /\ patterns[i].key = k} IN
    IF idx = {} THEN <<>>
    ELSE <<patterns[CHOOSE i \in idx : \A j \in idx : i <= j]>>

WithinSigma(x, pat, k) ==
    LET dev == Abs(x * pat.sample_count - pat.sum)
        var == pat.sample_count * pat.sumsq - pat.sum * pat.sum
    IN  IF var = 0
        THEN 10 * dev <= k * pat.sum
        ELSE dev * dev <= k * k * var

check_anomaly(t, metric, current_value, day, seasonal, monthly) ==
    LET dow_pattern == FetchOne(seasonal, t, metric, Weekday(day))
        month_pattern == FetchOne(monthly, t, metric, Month(day))
    IN  IF dow_pattern = <<>> /\ month_pattern = <<>>
        THEN [is_anomaly |-> FALSE, severity |-> "UNKNOWN",
              context |-> "Insufficient historical data for seasonal analysis"]
        ELSE LET pat == IF dow_pattern # <<>> THEN dow_pattern[1] ELSE month_pattern[1] IN
             IF WithinSigma(current_value, pat, 2)
             THEN [is_anomaly |-> FALSE, severity |-> "NORMAL",
                   context |-> "Value is within expected range"]
             ELSE IF WithinSigma(current_value, pat, 3)
             THEN [is_anomaly |-> TRUE, severity |-> "WARNING",
                   context |-> "Value deviates from norm"]
             ELSE [is_anomaly |-> TRUE, severity |-> "CRITICAL",
                   context |-> "Significant anomaly"]

(***************************************************************************)
(* The decisions MonitorAgent.run takes on the tools' results.             *)
(***************************************************************************)
LoadStopsNever(res) == FALSE

\* "if load_result['decision'] == 'CRITICAL_STOP' or df is None"
LoadStops(res) == res.decision = "CRITICAL_STOP"

VerdictStatusDriftFails(warnings) ==
    IF \E i \in 1..Len(warnings) : warnings[i] = "Drift: row_count" THEN "FAIL"
    ELSE IF warnings # <<>> THEN "PASS_WITH_WARNINGS" ELSE "PASS"

\* "Determine final status"
VerdictStatus(warnings) ==
    IF warnings # <<>> THEN "PASS_WITH_WARNINGS" ELSE "PASS"

(***************************************************************************)
(* MonitorAgent._generate_final_report.                                    *)
(***************************************************************************)
GenerateFinalReport(status, critical_errors, warnings, inferred, log) ==
    [status |-> status, critical_errors |-> critical_errors,
     warnings |-> warnings, execution_log |-> log,
     inferred_contract |-> inferred,
     file |-> run.file, table_name |-> run.table]


(***************************************************************************)
(* Initial state: a fresh agent over an empty history store, every file    *)
(* in the landing directory.                                               *)
(***************************************************************************)
InitRun ==
    /\ contracts = InitialContracts
    /\ location = [p \in Paths |-> IF p = MissingFile THEN "missing" ELSE "landing"]
    /\ today = 0
    /\ seen_hashes = {}
    /\ metrics_history = <<>>
    /\ seasonal_patterns = <<>>
    /\ monthly_patterns = <<>>
    /\ execution_log = <<>>
    /\ pc = "idle"
    /\ run = IdleRun
    /\ report = NoReport
    /\ runs = 0
    /\ start_snapshot = [history |-> <<>>, seasonal |-> <<>>, monthly |-> <<>>]
    /\ prev = NoPrev

Returned == pc = "done"

AtRest == pc \in {"idle", "done", "raised"}

\* The set of critical errors of a report, each taken by its message; the
\* figures inside a message (age, counts) are left out of the comparison.
ErrorKinds(errors) == {errors[i].msg : i \in 1..Len(errors)}

(***************************************************************************)
(* MonitorAgent.run, one action per stage.                                 *)
(***************************************************************************)
\* run(): reset the execution state, locate the contract, read its
\* freshness rule.
StartRun(t, p) ==
    /\ AtRest
    /\ runs < MaxRuns
    /\ runs' = runs + 1
    /\ execution_log' = <<>>
    /\ run' = [IdleRun EXCEPT !.file = p, !.table = t,
                              !.found = FindContract(t).found,
                              !.freshness_limit = FreshnessLimit(FindContract(t))]
    /\ pc' = "probe"
    /\ report' = NoReport
    /\ start_snapshot' = [history |-> metrics_history,
                          seasonal |-> seasonal_patterns,
                          monthly |-> monthly_patterns]
    /\ prev' = IF pc = "done"
               THEN [valid |-> TRUE, table |-> run.table, file |-> run.file,
                     probe |-> run.metadata.status, status |-> report.status,
                     critical_errors |-> ErrorKinds(report.critical_errors),
                     history |-> start_snapshot.history]
               ELSE IF pc = "raised" THEN NoPrev ELSE prev
    /\ UNCHANGED notRunVars
    /\ UNCHANGED <<contracts, location, today, seen_hashes, metrics_history,
                   seasonal_patterns, monthly_patterns>>

\* Step 1: metadata check; age_hours is the age os.stat gives at that moment.
ProbeMetadata(age_hours) ==
    /\ pc = "probe"
    /\ LET res == FileMetadataToolRun(run.file, age_hours, run.freshness_limit, seen_hashes)
           log == Append(execution_log, "FileMetadataTool")
       IN  /\ seen_hashes' = MarkSeen(res, seen_hashes)
           /\ execution_log' = log
           /\ run' = [run EXCEPT !.metadata = res]
           /\ IF res.decision = "STOP"
              THEN /\ report' = GenerateFinalReport("FAIL", <<res.reason>>, <<>>, FALSE, log)
                   /\ pc' = "done"
              ELSE /\ report' = report
                   /\ pc' = "load"
    /\ UNCHANGED notRunVars
    /\ UNCHANGED <<contracts, location, today, metrics_history, seasonal_patterns,
                   monthly_patterns, runs, start_snapshot, prev>>

\* Step 2: load data.
LoadData ==
    /\ pc = "load"
    /\ LET res == DataLoaderToolRun(run.file)
           log == Append(execution_log, "DataLoaderTool")
       IN  /\ execution_log' = log
           /\ run' = [run EXCEPT !.load = res]
           /\ IF LoadStops(res)
              THEN /\ report' = GenerateFinalReport("FAIL", <<res.reason>>, <<>>, FALSE, log)
                   /\ pc' = "done"
              ELSE /\ report' = report
                   /\ pc' = "schema"
    /\ UNCHANGED notRunVars
    /\ UNCHANGED <<contracts, location, today, seen_hashes, metrics_history,
                   seasonal_patterns, monthly_patterns, runs, start_snapshot, prev>>

\* Step 3, contract found: schema validation.
ValidateSchema ==
    /\ pc = "schema"
    /\ run.found
    /\ LET res == SchemaValidatorToolRun(run.file)
           log == Append(execution_log, "SchemaValidatorTool")
           criticals == CountSeverity(res.violations, "CRITICAL")
       IN  /\ execution_log' = log
           /\ run' = [run EXCEPT !.schema = res]
           /\ IF res.decision = "CRITICAL_STOP"
              THEN /\ report' = GenerateFinalReport("FAIL",
                                    <<Reason("Critical Schema Violations", criticals)>>,
                                    <<>>, FALSE, log)
                   /\ pc' = "done"
              ELSE /\ report' = report
                   /\ pc' = "consistency"
    /\ UNCHANGED notRunVars
    /\ UNCHANGED <<contracts, location, today, seen_hashes, metrics_history,
                   seasonal_patterns, monthly_patterns, runs, start_snapshot, prev>>

\* Step 3, no contract: profile, draft a contract, report CONTRACT_MISSING.
InferContract ==
    /\ pc = "schema"
    /\ ~run.found
    /\ report' = GenerateFinalReport("CONTRACT_MISSING", <<>>,
                     <<"No contract found. Draft generated.">>, TRUE, execution_log)
    /\ pc' = "done"
    /\ UNCHANGED notRunVars
    /\ UNCHANGED <<contracts, location, today, seen_hashes, metrics_history,
                   seasonal_patterns, monthly_patterns, execution_log, run,
                   runs, start_snapshot, prev>>

CheckConsistencySavesFirst ==
    /\ pc = "consistency"
    /\ LET res == ConsistencyCheckToolRun(run.file, contracts[run.table])
           log == Append(execution_log, "ConsistencyCheckTool")
       IN  /\ execution_log' = log
           /\ run' = [run EXCEPT !.consistency = res]
           /\ IF res.status = "FAIL"
              THEN IF res.has_counts
                   THEN /\ report' = GenerateFinalReport("FAIL",
                                         <<Reason("Found orphan records", res.orphan_count)>>,
                                         <<>>, FALSE, log)
                        /\ pc' = "done"
                   ELSE /\ report' = report
                        /\ pc' = "raised"
              ELSE IF res.status = "SKIPPED" \/ res.has_counts
                   THEN /\ report' = report
                        /\ pc' = "stats"
                   ELSE /\ report' = report
                        /\ pc' = "raised"
    /\ metrics_history' = save_current_run(metrics_history, run.table, run.metadata.hash,
                                           FileContent(run.file).rows,
                                           FileContent(run.file).mean, today)
    /\ UNCHANGED notRunVars
    /\ UNCHANGED <<contracts, location, today, seen_hashes,
                   seasonal_patterns, monthly_patterns, runs, start_snapshot, prev>>

\* Step 3.5: referential integrity.  Reading orphan_count or relationship
\* from a result that does not carry them raises KeyError out of run().
CheckConsistency ==
    /\ pc = "consistency"
    /\ LET res == ConsistencyCheckToolRun(run.file, contracts[run.table])
           log == Append(execution_log, "ConsistencyCheckTool")
       IN  /\ execution_log' = log
           /\ run' = [run EXCEPT !.consistency = res]
           /\ IF res.status = "FAIL"
              THEN IF res.has_counts
                   THEN /\ report' = GenerateFinalReport("FAIL",
                                         <<Reason("Found orphan records", res.orphan_count)>>,
                                         <<>>, FALSE, log)
                        /\ pc' = "done"
                   ELSE /\ report' = report
                        /\ pc' = "raised"
              ELSE IF res.status = "SKIPPED" \/ res.has_counts
                   THEN /\ report' = report
                        /\ pc' = "stats"
                   ELSE /\ report' = report
                        /\ pc' = "raised"
    /\ UNCHANGED notRunVars
    /\ UNCHANGED <<contracts, location, today, seen_hashes, metrics_history,
                   seasonal_patterns, monthly_patterns, runs, start_snapshot, prev>>

\* Step 4: statistical profiling.
Profile ==
    /\ pc = "stats"
    /\ execution_log' = Append(execution_log, "StatsAnalysisTool")
    /\ pc' = "drift"
    /\ UNCHANGED notRunVars
    /\ UNCHANGED <<contracts, location, today, seen_hashes, metrics_history,
                   seasonal_patterns, monthly_patterns, run, report, runs,
                   start_snapshot, prev>>

\* Step 5: drift detection against the stored history.
DetectDrift ==
    /\ pc = "drift"
    /\ LET f == FileContent(run.file)
           res == DriftCheckToolRun(run.table, f.rows, f.mean, metrics_history, today)
       IN  /\ execution_log' = Append(execution_log, "DriftCheckTool")
           /\ run' = [run EXCEPT !.drift = res]
    /\ pc' = "save"
    /\ UNCHANGED notRunVars
    /\ UNCHANGED <<contracts, location, today, seen_hashes, metrics_history,
                   seasonal_patterns, monthly_patterns, report, runs,
                   start_snapshot, prev>>

\* "Save current run to history".
SaveCurrentRun ==
    /\ pc = "save"
    /\ metrics_history' = save_current_run(metrics_history, run.table, run.metadata.hash,
                                           FileContent(run.file).rows,
                                           FileContent(run.file).mean, today)
    /\ pc' = "seasonal"
    /\ UNCHANGED notRunVars
    /\ UNCHANGED <<contracts, location, today, seen_hashes, seasonal_patterns,
                   monthly_patterns, execution_log, run, report, runs,
                   start_snapshot, prev>>

\* Step 5.5: seasonal anomaly check, then online learning from this run.
DetectSeasonal ==
    /\ pc = "seasonal"
    /\ LET rows == FileContent(run.file).rows
           res == check_anomaly(run.table, "row_count", rows, today,
                                seasonal_patterns, monthly_patterns)
           learnt == learn_patterns(run.table, "row_count",
                                    <<[day |-> today, value |-> rows]>>)
       IN  /\ run' = [run EXCEPT !.seasonal = res]
           /\ IF run.schema.decision # "CRITICAL_STOP"
              THEN /\ seasonal_patterns' = seasonal_patterns \o learnt.seasonal
                   /\ monthly_patterns' = monthly_patterns \o learnt.monthly
              ELSE UNCHANGED <<seasonal_patterns, monthly_patterns>>
    /\ pc' = "verdict"
    /\ UNCHANGED notRunVars
    /\ UNCHANGED <<contracts, location, today, seen_hashes, metrics_history,
                   execution_log, report, runs, start_snapshot, prev>>

\* Step 6: final verdict.
FinalVerdict ==
    /\ pc = "verdict"
    /\ LET seasonal_warn == IF run.seasonal.is_anomaly
                            THEN <<"Seasonal Anomaly">> ELSE <<>>
           schema_warn == [i \in 1..CountSeverity(run.schema.violations, "WARNING")
                               |-> "Column violation"]
           warnings == seasonal_warn \o schema_warn \o run.drift.drift_warnings
           status == VerdictStatus(warnings)
       IN  report' = GenerateFinalReport(status, <<>>, warnings, FALSE, execution_log)
    /\ pc' = "done"
    /\ UNCHANGED notRunVars
    /\ UNCHANGED <<contracts, location, today, seen_hashes, metrics_history,
                   seasonal_patterns, monthly_patterns, execution_log, run,
                   runs, start_snapshot, prev>>

(***************************************************************************)
(* The environment of the agent.                                           *)
(***************************************************************************)
\* A new process constructs a new MonitorAgent (MonitorAgent.__init__): the
\* tools are rebuilt, the sqlite store on disk is kept.
NewAgent ==
    /\ AtRest
    /\ pc # "idle"
    /\ seen_hashes' = {}
    /\ execution_log' = <<>>
    /\ pc' = "idle"
    /\ run' = IdleRun
    /\ report' = NoReport
    /\ prev' = NoPrev
    /\ UNCHANGED notRunVars
    /\ UNCHANGED <<contracts, location, today, metrics_history, seasonal_patterns,
                   monthly_patterns, runs, start_snapshot>>

\* Time passes between runs.
AdvanceDay(d) ==
    /\ AtRest
    /\ eval_pc \in {"idle", "done"}
    /\ today + d <= MaxDay
    /\ today' = today + d
    /\ UNCHANGED <<notRunVars, notEvalVars>>

DaySteps == {LookbackDays, LookbackDays + 1}

NextRun ==
    \/ \E t \in Tables, p \in Paths : StartRun(t, p)
    \/ \E a \in Ages : ProbeMetadata(a)
    \/ LoadData
    \/ ValidateSchema
    \/ InferContract
    \/ CheckConsistency
    \/ Profile
    \/ DetectDrift
    \/ SaveCurrentRun
    \/ DetectSeasonal
    \/ FinalVerdict
    \/ NewAgent
    \/ \E d \in DaySteps : AdvanceDay(d)


(***************************************************************************)
(* Properties of MonitorAgent.run.                                         *)
(***************************************************************************)
StageOrder == <<"FileMetadataTool", "DataLoaderTool", "SchemaValidatorTool",
                "ConsistencyCheckTool", "StatsAnalysisTool", "DriftCheckTool">>

\* The stage at which the run stopped, from the results of its stages.
StopIndex ==
    IF run.metadata.decision = "STOP" THEN 1
    ELSE IF run.load.decision = "CRITICAL_STOP" THEN 2
    ELSE IF run.schema.decision = "CRITICAL_STOP" THEN 3
    ELSE IF run.consistency.status = "FAIL" THEN 4
    ELSE 6

RecordedHashes(history) == {history[i].file_hash : i \in 1..Len(history)}

DuplicateReason == Reason("File hash already processed", 0)

\* C1: every report returned by MonitorAgent.run has status FAIL if and
\* only if its critical_errors list is non-empty.
C1_FailIffCriticalErrors ==
    Returned => (report.status = "FAIL" <=> report.critical_errors # <<>>)

C1_Witness ==
    /\ Returned
    /\ report.status = "FAIL"
    /\ report.critical_errors = <<Reason("Found orphan records", 2)>>

\* C3: with a located contract the stages run in the fixed order probe,
\* load, schema, consistency, profiling, drift; the execution_log is a
\* prefix of that order, a returned run's log ends exactly at the stage that
\* stopped it, and no stage after the stopping one has produced a result.
C3_StagesInOrder ==
    run.found =>
        /\ IsPrefix(execution_log, StageOrder)
        /\ Returned =>
            /\ execution_log = SubSeq(StageOrder, 1, StopIndex)
            /\ report.execution_log = execution_log
            /\ StopIndex < 2 => run.load = NoResult
            /\ StopIndex < 3 => run.schema = NoResult
            /\ StopIndex < 4 => run.consistency = NoResult
            /\ StopIndex < 6 => run.drift = NoResult /\ run.seasonal = NoResult

C3_Witness ==
    /\ Returned
    /\ run.found
    /\ run.load.decision = "CRITICAL_STOP"
    /\ execution_log = <<"FileMetadataTool", "DataLoaderTool">>

\* C4: after a completed run the file is in staging when the status is PASS
\* or PASS_WITH_WARNINGS and in quarantine when it is FAIL, and in neither
\* case still in landing.
C4_FileMovedByVerdict ==
    (Returned /\ run.file # MissingFile) =>
        /\ report.status \in {"PASS", "PASS_WITH_WARNINGS"} => location[run.file] = "staging"
        /\ report.status = "FAIL" => location[run.file] = "quarantine"

\* C5: a run that ends FAIL leaves the metrics history and both seasonal
\* pattern tables exactly as they were when the run started.
C5_FailedRunLearnsNothing ==
    (Returned /\ report.status = "FAIL") =>
        /\ metrics_history = start_snapshot.history
        /\ seasonal_patterns = start_snapshot.seasonal
        /\ monthly_patterns = start_snapshot.monthly

C5_Witness ==
    /\ Returned
    /\ report.status = "FAIL"
    /\ run.consistency.status = "FAIL"
    /\ metrics_history # <<>>

SameFileAgain ==
    /\ Returned
    /\ prev.valid
    /\ run.file # MissingFile
    /\ prev.file = run.file

C8_RecordedHashIsDuplicate ==
    (/\ run.metadata # NoResult
     /\ run.file # MissingFile
     /\ run.file \in RecordedHashes(start_snapshot.history)) =>
        /\ run.metadata.status = "duplicate"
        /\ run.metadata.decision = "STOP"

(***************************************************************************)
(* Part II  MonitorAgent.evaluate_data_file (src/agents/monitor_agent.py)  *)
(*          with AnomalyDetector, ImpactAnalyzer, DataProfiler and         *)
(*          DorisLoader.                           specification: SpecEval *)
(*                                                                         *)
(* Z-scores and thresholds are counted in hundredths, quality scores in    *)
(* percent.  Of the metrics evaluate_run derives from the data frame only  *)
(* row_count is followed; a comparison of a z-score with a threshold is    *)
(* computed exactly from count, sum and sum of squares of the baseline.    *)
(***************************************************************************)
MaxEvals == 1

MaxMetricRows == 3

DefaultZWarning == 250

DefaultZCritical == 300

DefaultQualityWarn == 80

DefaultQualityBlock == 50

AnomalyZ == 300

CappedZ == 1000

MinBaselineRows == 3

GlobalWindow == 30

Datasets == {"transactions", "clicks"}

\* config/lineage.yaml: the criticality of each consumer of a dataset.
Lineage ==
    [d \in Datasets |->
        CASE d = "transactions" -> <<"MEDIUM", "HIGH", "LOW">>
          [] OTHER              -> <<>>]

\* quality.anomaly_thresholds of each dataset's contract.
AnomalyThresholds ==
    [d \in Datasets |->
        CASE d = "clicks" -> [z_score_warning |-> 200, z_score_critical |-> 400,
                              quality_score_block |-> 60]
          [] OTHER        -> [description |-> 0]]

\* dict.get(key, default)
Get(dict, key, default) == IF key \in DOMAIN dict THEN dict[key] ELSE default

\* What pandas, the schema validator and the profiler find in a data file.
EvalContent(h) ==
    CASE h = MissingFile ->
            [readable |-> FALSE, unreadable |-> "File not found", rows |-> 0,
             missing_columns |-> 0, type_mismatches |-> 0, new_columns |-> 0,
             quality |-> 0]
      [] h = 2 ->
            [readable |-> TRUE, unreadable |-> "", rows |-> 12,
             missing_columns |-> 0, type_mismatches |-> 0, new_columns |-> 0,
             quality |-> 49]
      [] h = 3 ->
            [readable |-> TRUE, unreadable |-> "", rows |-> 12,
             missing_columns |-> 0, type_mismatches |-> 0, new_columns |-> 0,
             quality |-> 50]
      [] h = 4 ->
            [readable |-> FALSE, unreadable |-> "Failed to load file", rows |-> 0,
             missing_columns |-> 0, type_mismatches |-> 0, new_columns |-> 0,
             quality |-> 0]
      [] h = 5 ->
            [readable |-> TRUE, unreadable |-> "", rows |-> 12,
             missing_columns |-> 1, type_mismatches |-> 1, new_columns |-> 0,
             quality |-> 100]
      [] h = 6 ->
            [readable |-> TRUE, unreadable |-> "", rows |-> 40,
             missing_columns |-> 0, type_mismatches |-> 0, new_columns |-> 0,
             quality |-> 100]
      [] h = 7 ->
            [readable |-> TRUE, unreadable |-> "", rows |-> 19,
             missing_columns |-> 0, type_mismatches |-> 0, new_columns |-> 0,
             quality |-> 100]
      [] OTHER ->
            [readable |-> TRUE, unreadable |-> "", rows |-> 12,
             missing_columns |-> 0, type_mismatches |-> 0, new_columns |-> 1,
             quality |-> 100]

\* Values the explicit training step stores for row_count.
MetricValues == {10, 14}

\* What DorisLoader.load_data does with the request.
LoadOutcomes == {"Success", "connection refused", "Load Error"}

(***************************************************************************)
(* ImpactAnalyzer.get_downstream_impact: the highest consumer criticality. *)
(***************************************************************************)
CriticalityLevel(c) ==
    CASE c = "LOW" -> 1 [] c = "MEDIUM" -> 2 [] c = "HIGH" -> 3
      [] c = "CRITICAL" -> 4 [] OTHER -> 1

RECURSIVE MaxCriticality(_, _, _)
MaxCriticality(consumers, max_level, overall) ==
    IF consumers = <<>> THEN overall
    ELSE IF CriticalityLevel(Head(consumers)) > max_level
         THEN MaxCriticality(Tail(consumers), CriticalityLevel(Head(consumers)),
                             Head(consumers))
         ELSE MaxCriticality(Tail(consumers), max_level, overall)

get_downstream_impact(d) == MaxCriticality(Lineage[d], 0, "LOW")

(***************************************************************************)
(* AnomalyDetector: the metric history and the baseline taken from it.     *)
(***************************************************************************)
\* save_run_metrics: one row per metric, stamped with the weekday.
save_run_metrics(history, d, value, day) ==
    Append(history, [dataset_name |-> d, metric_name |-> "row_count",
                     metric_value |-> value, day_of_week |-> Weekday(day)])

MetricRows(history, d, metric) ==
    SelectRows(history, [i \in 1..Len(history) |->
                            /\ history[i].dataset_name = d
                            /\ history[i].metric_name = metric])

LastRows(rows, k) ==
    IF Len(rows) <= k THEN rows ELSE SubSeq(rows, Len(rows) - k + 1, Len(rows))

\* AVG, STDDEV and COUNT of a query, kept as count, sum and sum of squares.
Aggregate(rows, type) ==
    [type |-> type, n |-> Len(rows),
     sum |-> SumSeq([i \in 1..Len(rows) |-> rows[i].metric_value]),
     sumsq |-> SumSeq([i \in 1..Len(rows) |-> rows[i].metric_value * rows[i].metric_value])]

get_seasonal_baseline(history, d, metric, day) ==
    LET all == MetricRows(history, d, metric)
        same_day == SelectRows(all, [i \in 1..Len(all) |->
                                        all[i].day_of_week = Weekday(day)])
        recent == LastRows(all, GlobalWindow)
    IN  IF Len(same_day) >= MinBaselineRows THEN Aggregate(same_day, "seasonal")
        ELSE IF Len(recent) >= MinBaselineRows THEN Aggregate(recent, "global")
        ELSE [type |-> "initializing", n |-> 0, sum |-> 0, sumsq |-> 0]

\* n * (n - 1) * variance of the baseline.
Spread(b) == b.n * b.sumsq - b.sum * b.sum

\* |z| > num / den for the z-score evaluate_run gives value against b.
ZAbove(value, b, num, den) ==
    IF b.type = "initializing" THEN 0 > num
    ELSE IF Spread(b) = 0
         THEN IF value * b.n = b.sum THEN 0 > num ELSE CappedZ * den > 100 * num
         ELSE (value * b.n - b.sum) * (value * b.n - b.sum) * (b.n - 1) * den * den
                  > num * num * b.n * Spread(b)

\* |z| >= num / den
ZAtLeast(value, b, num, den) ==
    IF b.type = "initializing" THEN 0 >= num
    ELSE IF Spread(b) = 0
         THEN IF value * b.n = b.sum THEN 0 >= num ELSE CappedZ * den >= 100 * num
         ELSE (value * b.n - b.sum) * (value * b.n - b.sum) * (b.n - 1) * den * den
                  >= num * num * b.n * Spread(b)

\* round(|z|, 2) > threshold, threshold in hundredths: the report carries
\* the z-score rounded to two decimals.
RoundedZAbove(value, b, threshold) == ZAtLeast(value, b, 2 * threshold + 1, 200)

\* evaluate_run: a metric is an anomaly when |z| > 3.0.
evaluate_run(history, d, rows, day) ==
    LET b == get_seasonal_baseline(history, d, "row_count", day)
        is_anomaly == ZAbove(rows, b, AnomalyZ, 100)
    IN  [status |-> IF is_anomaly THEN "ANOMALY_DETECTED" ELSE "PASS",
         anomalies |-> IF is_anomaly THEN 1 ELSE 0,
         baseline |-> b]

(***************************************************************************)
(* System tables written by MonitorAgent._record_run.                      *)
(***************************************************************************)
\* NULL in the column last_file_mtime; the mtime os.stat cannot give.
NoMtime == -1

NoRegistryRow == [present |-> FALSE, scan_count |-> 0, last_status |-> "none",
                  last_file_mtime |-> NoMtime]

save_run_to_history(history, d, v) ==
    Append(history, [dataset_name |-> d, status |-> v.status,
                     anomaly_count |-> v.anomalies])

update_dataset_registry(registry, d, status, file_mtime) ==
    IF registry[d].present
    THEN [registry EXCEPT ![d].scan_count = @ + 1, ![d].last_status = status,
                          ![d].last_file_mtime =
                              IF file_mtime # NoMtime THEN file_mtime ELSE @]
    ELSE [registry EXCEPT ![d] = [present |-> TRUE, scan_count |-> 1,
                                  last_status |-> status,
                                  last_file_mtime |-> file_mtime]]

\* _record_run: Path(file_path).stat().st_mtime, None when stat fails.
StatMtime(p) == IF FileExists(p) THEN mtime[p] ELSE NoMtime

(***************************************************************************)
(* The decisions of evaluate_data_file.                                    *)
(***************************************************************************)
NoVerdict == [status |-> "NONE", reason |-> "", load_status |-> "", anomalies |-> 0]

IdleEval == [file |-> MissingFile, dataset |-> "none", loader_calls |-> 0,
             status_at_load |-> "NONE", blocked_by |-> "none",
             passed_schema |-> FALSE, history_at_start |-> 0]

Thresholds(d) ==
    [z_warn |-> Get(AnomalyThresholds[d], "z_score_warning", DefaultZWarning),
     z_critical |-> Get(AnomalyThresholds[d], "z_score_critical", DefaultZCritical),
     qs_warn |-> Get(AnomalyThresholds[d], "quality_score_warn", DefaultQualityWarn),
     qs_block |-> Get(AnomalyThresholds[d], "quality_score_block", DefaultQualityBlock)]

\* Stage A: missing columns or type mismatches break the contract.
SchemaBreaks(f) == f.missing_columns > 0 \/ f.type_mismatches > 0

\* Stage A2: the quality gate.
QualityDecision(v, score, t) ==
    IF score < t.qs_block
    THEN [v EXCEPT !.status = "BLOCKED", !.reason = "Data Quality Score critically low",
                   !.load_status = "SKIPPED (Quality too low)"]
    ELSE IF score < t.qs_warn
         THEN [v EXCEPT !.status = "WARNING", !.reason = "Data Quality Score below threshold"]
         ELSE v

\* A stage B that answers from the anomaly report alone.
AnomalyDecisionResets(v, anomaly_report, criticality, rows, t) ==
    [v EXCEPT !.status = "PASSED"]

\* Stage B: the decision matrix over the anomaly report.
AnomalyDecision(v, anomaly_report, criticality, rows, t) ==
    IF anomaly_report.status = "ANOMALY_DETECTED"
    THEN LET w == [v EXCEPT !.anomalies = anomaly_report.anomalies]
             b == anomaly_report.baseline
         IN  IF criticality \in {"HIGH", "CRITICAL"} /\ RoundedZAbove(rows, b, t.z_critical)
             THEN [w EXCEPT !.status = "BLOCKED",
                            !.reason = "CRITICAL ANOMALY on HIGH IMPACT dataset"]
             ELSE IF criticality = "LOW" /\ RoundedZAbove(rows, b, t.z_critical)
                  THEN [w EXCEPT !.status = "WARNING",
                                 !.reason = "Anomaly detected, but impact is LOW"]
                  ELSE IF RoundedZAbove(rows, b, t.z_warn)
                       THEN [w EXCEPT !.status = "WARNING", !.reason = "Anomaly detected"]
                       ELSE w
    ELSE v

ShouldLoadAlways(status) == TRUE

\* Stage C: the guard of the load.
ShouldLoad(status) == status \in {"PASSED", "WARNING"}

\* Stage C: the verdict after the loader has answered.
LoadDecision(v, outcome) ==
    CASE outcome = "Success" -> [v EXCEPT !.load_status = "Success"]
      [] outcome = "connection refused" ->
            [v EXCEPT !.status = "WARNING", !.load_status = "SKIPPED (Infra Error)"]
      [] OTHER -> [v EXCEPT !.status = "BLOCKED", !.load_status = "error"]

InitEval ==
    /\ metric_history = <<>>
    /\ run_history = <<>>
    /\ dataset_registry = [d \in Datasets |-> NoRegistryRow]
    /\ schema_passes = [d \in Datasets |-> 0]
    /\ eval_pc = "idle"
    /\ verdict = NoVerdict
    /\ eval = IdleEval
    /\ evals = 0

EvalAtRest == eval_pc \in {"idle", "done"}

(***************************************************************************)
(* evaluate_data_file, one action per stage.                               *)
(***************************************************************************)
\* Stage 0: read the file; a file that cannot be read is answered with a
\* BLOCKED dictionary at once, without a record in the system tables.
\* BeginEvaluation is the stage; ReadFile is a call from outside evaluate_all.
BeginEvaluation(p, d) ==
    /\ EvalAtRest
    /\ evals' = evals + 1
    /\ eval' = [IdleEval EXCEPT !.file = IF EvalContent(p).readable
                                         THEN p ELSE MissingFile,
                                !.dataset = d,
                                !.history_at_start = Len(metric_history),
                                !.blocked_by = IF EvalContent(p).readable
                                               THEN "none" ELSE "read"]
    /\ IF EvalContent(p).readable
       THEN /\ verdict' = [NoVerdict EXCEPT !.status = "PASSED",
                                            !.reason = "All checks passed."]
            /\ eval_pc' = "stage_a"
       ELSE /\ verdict' = [NoVerdict EXCEPT !.status = "BLOCKED",
                                            !.reason = EvalContent(p).unreadable]
            /\ eval_pc' = "done"
    /\ UNCHANGED <<metric_history, run_history, dataset_registry, schema_passes>>

ReadFile(p, d) ==
    /\ evals < MaxEvals
    /\ BeginEvaluation(p, d)
    /\ UNCHANGED <<today, notEvalVars>>

\* Stage A: schema validation, the hard gate.
StageA_Schema ==
    /\ eval_pc = "stage_a"
    /\ IF SchemaBreaks(EvalContent(eval.file))
       THEN LET v == [verdict EXCEPT !.status = "BLOCKED", !.reason = "Schema Violation",
                                     !.load_status = "SKIPPED (Blocked by Agent)"]
            IN  /\ verdict' = v
                /\ eval' = [eval EXCEPT !.blocked_by = "schema", !.file = MissingFile]
                /\ run_history' = save_run_to_history(run_history, eval.dataset, v)
                /\ dataset_registry' =
                       update_dataset_registry(dataset_registry, eval.dataset, v.status,
                                                  StatMtime(eval.file))
                /\ eval_pc' = "done"
                /\ UNCHANGED schema_passes
       ELSE /\ eval' = [eval EXCEPT !.passed_schema = TRUE]
            /\ schema_passes' = [schema_passes EXCEPT ![eval.dataset] = @ + 1]
            /\ eval_pc' = "stage_a2"
            /\ UNCHANGED <<verdict, run_history, dataset_registry>>
    /\ UNCHANGED <<metric_history, evals>>
    /\ UNCHANGED <<today, notEvalVars>>

\* Stage A2: data profiling and the quality-score gate.
StageA2_Profile ==
    /\ eval_pc = "stage_a2"
    /\ LET v == QualityDecision(verdict, EvalContent(eval.file).quality,
                                Thresholds(eval.dataset))
       IN  /\ verdict' = v
           /\ IF v.status = "BLOCKED"
              THEN /\ eval' = [eval EXCEPT !.blocked_by = "quality", !.file = MissingFile]
                   /\ run_history' = save_run_to_history(run_history, eval.dataset, v)
                   /\ dataset_registry' =
                          update_dataset_registry(dataset_registry, eval.dataset, v.status,
                                                  StatMtime(eval.file))
                   /\ eval_pc' = "done"
              ELSE /\ eval_pc' = "stage_b"
                   /\ UNCHANGED <<eval, run_history, dataset_registry>>
    /\ UNCHANGED <<metric_history, schema_passes, evals>>
    /\ UNCHANGED <<today, notEvalVars>>

\* Stage B: anomaly detection weighed by downstream impact.
StageB_Anomaly ==
    /\ eval_pc = "stage_b"
    /\ LET rows == EvalContent(eval.file).rows
           anomaly_report == evaluate_run(metric_history, eval.dataset, rows, today)
           v == AnomalyDecision(verdict, anomaly_report,
                                get_downstream_impact(eval.dataset), rows,
                                Thresholds(eval.dataset))
       IN  /\ verdict' = v
           /\ eval' = [eval EXCEPT !.blocked_by = IF v.status = "BLOCKED"
                                                  THEN "anomaly" ELSE @]
    /\ eval_pc' = "stage_c"
    /\ UNCHANGED <<metric_history, run_history, dataset_registry, schema_passes, evals>>
    /\ UNCHANGED <<today, notEvalVars>>

\* Stage C: load into the warehouse, or skip.
StageC_Load(outcome) ==
    /\ eval_pc = "stage_c"
    /\ IF ShouldLoad(verdict.status)
       THEN /\ eval' = [eval EXCEPT !.loader_calls = @ + 1,
                                    !.status_at_load = verdict.status,
                                    !.blocked_by = IF LoadDecision(verdict, outcome).status
                                                        = "BLOCKED"
                                                   THEN "load" ELSE @]
            /\ verdict' = LoadDecision(verdict, outcome)
       ELSE /\ eval' = [eval EXCEPT !.status_at_load = verdict.status]
            /\ verdict' = [verdict EXCEPT !.load_status = "SKIPPED (Blocked by Agent)"]
    /\ eval_pc' = "stage_d"
    /\ UNCHANGED <<metric_history, run_history, dataset_registry, schema_passes, evals>>
    /\ UNCHANGED <<today, notEvalVars>>

\* Stage D: record the run in the system tables and return the verdict.
StageD_Record ==
    /\ eval_pc = "stage_d"
    /\ run_history' = save_run_to_history(run_history, eval.dataset, verdict)
    /\ dataset_registry' =
           update_dataset_registry(dataset_registry, eval.dataset, verdict.status,
                                   StatMtime(eval.file))
    /\ eval' = [eval EXCEPT !.file = MissingFile]
    /\ eval_pc' = "done"
    /\ UNCHANGED <<metric_history, schema_passes, verdict, evals>>
    /\ UNCHANGED <<today, notEvalVars>>

\* The explicit training step: AnomalyDetector.save_run_metrics called from
\* outside the pipeline.
SaveRunMetrics(d, value) ==
    /\ EvalAtRest
    /\ Len(metric_history) < MaxMetricRows
    /\ metric_history' = save_run_metrics(metric_history, d, value, today)
    /\ UNCHANGED <<run_history, dataset_registry, schema_passes, eval_pc, verdict,
                   eval, evals>>
    /\ UNCHANGED <<today, notEvalVars>>

NextEval ==
    \/ \E p \in Paths, d \in Datasets : ReadFile(p, d)
    \/ StageA_Schema
    \/ StageA2_Profile
    \/ StageB_Anomaly
    \/ \E outcome \in LoadOutcomes : StageC_Load(outcome)
    \/ StageD_Record
    \/ \E d \in Datasets, value \in MetricValues : SaveRunMetrics(d, value)
    \/ \E d \in DaySteps : AdvanceDay(d)

(***************************************************************************)
(* Properties of evaluate_data_file.                                       *)
(***************************************************************************)
\* C2: in every evaluate_data_file run the loader is invoked at most once,
\* and only when the verdict status on entering the load stage is PASSED or
\* WARNING; a run blocked by schema validation, by the quality-score gate
\* or by the anomaly/criticality decision never invokes the loader.
C2_LoaderOnlyWhenNotBlocked ==
    /\ eval.loader_calls <= 1
    /\ eval.loader_calls = 1 => eval.status_at_load \in {"PASSED", "WARNING"}
    /\ eval.blocked_by \in {"schema", "quality", "anomaly"} => eval.loader_calls = 0

\* A run blocked by the anomaly decision has gone through the load stage
\* and returned without a call of the loader.
C2_Witness ==
    /\ eval_pc = "done"
    /\ eval.blocked_by = "anomaly"
    /\ eval.status_at_load = "BLOCKED"
    /\ verdict.load_status = "SKIPPED (Blocked by Agent)"
    /\ eval.loader_calls = 0

\* C6: every evaluate_data_file run that passes schema validation has
\* appended its row_count to metric_history when it returns, so that after
\* three or more such runs of a dataset the row_count baseline of that
\* dataset is no longer 'initializing'.
C6_PassingRunAppendsMetrics ==
    (eval_pc = "done" /\ eval.passed_schema) =>
        /\ \E i \in (eval.history_at_start + 1)..Len(metric_history) :
              /\ metric_history[i].dataset_name = eval.dataset
              /\ metric_history[i].metric_name = "row_count"
        /\ schema_passes[eval.dataset] >= MinBaselineRows =>
              get_seasonal_baseline(metric_history, eval.dataset, "row_count",
                                    today).type # "initializing"

(***************************************************************************)
(* Part III  SchemaRemediator.propose_schema_update                        *)
(*           (src/tools/schema_remediator.py).  specification: SpecRemediator *)
(*                                                                         *)
(* A text is kept as what stands around the YAML document (a leading       *)
(* comment line, an opening and a closing Markdown fence) and the value    *)
(* yaml.safe_load gives for the document itself.                           *)
(***************************************************************************)
ColumnNames == {"id", "amount", "status"}

\* The value of the 'columns' key: a list of column entries with their
\* names, or something else (null, a scalar, a list of plain strings).
ColumnValues ==
    [shape : {"entries"}, names : SUBSET ColumnNames]
        \cup [shape : {"null", "strings"}, names : {{}}]

\* What yaml.safe_load gives for a document.
Documents ==
    [kind : {"malformed", "empty", "list"}, has_columns : {FALSE},
     columns : {[shape |-> "null", names |-> {}]}]
        \cup [kind : {"mapping"}, has_columns : {FALSE},
              columns : {[shape |-> "null", names |-> {}]}]
        \cup [kind : {"mapping"}, has_columns : {TRUE}, columns : ColumnValues]

\* What may stand before the document: nothing, or a fence of three
\* backquotes with or without the word yaml.
Fences == {"", "FENCE yaml", "FENCE"}

Texts == [comment : BOOLEAN, open : Fences, close : BOOLEAN, doc : Documents]

NoText == [comment |-> FALSE, open |-> "", close |-> FALSE,
           doc |-> [kind |-> "empty", has_columns |-> FALSE,
                    columns |-> [shape |-> "null", names |-> {}]]]

\* A contract on disk: a mapping whose columns are named entries.
ContractTexts ==
    {[comment |-> FALSE, open |-> "", close |-> FALSE,
      doc |-> [kind |-> "mapping", has_columns |-> TRUE,
               columns |-> [shape |-> "entries", names |-> cols]]] :
        cols \in (SUBSET ColumnNames) \ {{}}}

\* What the LLM agent may answer: any text, or an exception.
Responses == [raised : {FALSE}, content : {t \in Texts : ~t.comment}]
                 \cup [raised : {TRUE}, content : {NoText}]

\* yaml.safe_load: a backtick cannot start a token, so a text that still
\* carries a fence does not parse; a comment line is skipped.
safe_load(text) ==
    IF text.open # "" \/ text.close
    THEN [kind |-> "malformed", has_columns |-> FALSE,
          columns |-> [shape |-> "null", names |-> {}]]
    ELSE text.doc

\* "Clean up potential markdown formatting from LLM".
StripFences(content) == [content EXCEPT !.open = "", !.close = FALSE]

\* Safety gate 1.
validate_yaml(content) ==
    LET parsed == safe_load(content)
    IN  parsed.kind = "mapping" /\ parsed.has_columns

\* {c.get("name") for c in doc.get("columns", [])}: raises unless the value
\* is a list of entries (a missing key gives the empty list).
ColumnsRaise(doc) == doc.has_columns /\ doc.columns.shape # "entries"

ColumnSet(doc) == IF doc.has_columns THEN doc.columns.names ELSE {}

\* Safety gate 2: whatever goes wrong while reading the column names
\* ("except Exception") lets the proposal through.
validate_no_columns_removed(original_yaml, proposed_yaml) ==
    LET original == safe_load(original_yaml)
        proposed == safe_load(proposed_yaml)
    IN  IF original.kind = "malformed" \/ proposed.kind = "malformed"
        THEN TRUE
        ELSE IF original.kind = "empty" \/ proposed.kind = "empty"
        THEN TRUE
        ELSE IF original.kind = "list" \/ proposed.kind = "list"
        THEN TRUE
        ELSE IF ColumnsRaise(original) \/ ColumnsRaise(proposed)
        THEN TRUE
        ELSE ColumnSet(original) \subseteq ColumnSet(proposed)

propose_schema_update(current, response) ==
    IF response.raised
    THEN [current EXCEPT !.comment = TRUE]
    ELSE LET content == StripFences(response.content)
         IN  IF ~validate_yaml(content) THEN current
             ELSE IF ~validate_no_columns_removed(current, content) THEN current
             ELSE content

\* The column names a contract text declares.
ColumnsOf(text) ==
    LET doc == safe_load(text)
    IN  IF doc.kind = "mapping" /\ doc.has_columns /\ doc.columns.shape = "entries"
        THEN doc.columns.names
        ELSE {}

InitRemediator ==
    /\ current_yaml = NoText
    /\ llm_response = [raised |-> FALSE, content |-> NoText]
    /\ returned_yaml = NoText

ProposeSchemaUpdate(current, response) ==
    /\ current_yaml' = current
    /\ llm_response' = response
    /\ returned_yaml' = propose_schema_update(current, response)
    /\ UNCHANGED notRemVars

NextRemediator ==
    \E current \in ContractTexts, response \in Responses :
        ProposeSchemaUpdate(current, response)

(***************************************************************************)
(* Part IV  Applying a contract: MonitorAgent.remediate_schema with        *)
(*          SchemaRemediator.create_backup, and save_contract of           *)
(*          backend/main.py.                     specification: SpecContract *)
(*                                                                         *)
(* A file content is a number; a directory is a function from file names   *)
(* to contents.  File names carry the time of day to the second.           *)
(***************************************************************************)
MaxApplies == 3

MaxClock == 2

Contents == 1..3

\* info.version of a contract content.
VersionOf(c) == IF c = 3 THEN "2.0.0" ELSE "1.0.0"

\* datetime.now().strftime("%Y%m%d_%H%M%S")
Timestamp(t) == t

\* shutil.copy / shutil.copy2: the target is created or overwritten.
CopyTo(dir, name, content) ==
    [n \in DOMAIN dir \cup {name} |-> IF n = name THEN content ELSE dir[n]]

\* <stem>.backup_<timestamp><suffix>
BackupName(t) == <<"backup", Timestamp(t)>>

\* <table>_v<version>_<timestamp>.yaml
ArchiveName(c, t) == <<VersionOf(c), Timestamp(t)>>

NoApply == [kind |-> "none", pre_apply |-> 0, names_before |-> {},
            replaced |-> FALSE]

InitContract ==
    /\ now = 0
    /\ expectation_file = 1
    /\ backups = <<>>
    /\ contract_file = 1
    /\ archive = <<>>
    /\ applies = 0
    /\ last_apply = NoApply

\* The clock moves on by a second.
Tick ==
    /\ now < MaxClock
    /\ now' = now + 1
    /\ UNCHANGED <<expectation_file, backups, contract_file, archive, applies,
                   last_apply>>
    /\ UNCHANGED notConVars

\* MonitorAgent.remediate_schema: back up, then overwrite; an exception of
\* either step is caught and answered with False.
RemediateSchema(new_yaml_content, copy_ok) ==
    /\ applies < MaxApplies
    /\ applies' = applies + 1
    /\ IF copy_ok
       THEN /\ backups' = CopyTo(backups, BackupName(now), expectation_file)
            /\ expectation_file' = new_yaml_content
       ELSE UNCHANGED <<backups, expectation_file>>
    /\ last_apply' = [kind |-> "remediate_schema", pre_apply |-> expectation_file,
                      names_before |-> DOMAIN backups, replaced |-> copy_ok]
    /\ UNCHANGED <<now, contract_file, archive>>
    /\ UNCHANGED notConVars

\* save_contract: archive the existing contract, then overwrite; a failure
\* to archive is printed as a warning and the contract is written all the
\* same.
SaveContract(yaml_content, copy_ok) ==
    /\ applies < MaxApplies
    /\ applies' = applies + 1
    /\ archive' = IF copy_ok
                  THEN CopyTo(archive, ArchiveName(contract_file, now), contract_file)
                  ELSE archive
    /\ contract_file' = yaml_content
    /\ last_apply' = [kind |-> "save_contract", pre_apply |-> contract_file,
                      names_before |-> DOMAIN archive, replaced |-> TRUE]
    /\ UNCHANGED <<now, expectation_file, backups>>
    /\ UNCHANGED notConVars

NextContract ==
    \/ Tick
    \/ \E c \in Contents, copy_ok \in BOOLEAN : RemediateSchema(c, copy_ok)
    \/ \E c \in Contents, copy_ok \in BOOLEAN : SaveContract(c, copy_ok)

(***************************************************************************)
(* Part V   The command line: main and run_autonomous_pipeline (main.py)   *)
(*          with DiagnoserAgent, HealerAgent and ValidatorAgent.           *)
(*                                                  specification: SpecCli *)
(***************************************************************************)
Choices == {"y", "n"}

\* ContractGeneratorTool.run: the draft carries the default freshness rule
\* of 24h and no foreign keys.
InferredContract == [found |-> TRUE, freshness |-> 24, nfk |-> 0]

NoCli == [file |-> MissingFile, table |-> "none", runs_before |-> 0,
          ran |-> FALSE, monitor_status |-> "NONE"]

\* DiagnoserAgent.run
DiagnoserRun(monitor_report) ==
    [auto_fixable |-> monitor_report.critical_errors = <<>>
                          /\ monitor_report.warnings # <<>>]

\* HealerAgent.run
HealerRun(diagnosis_report) == [success |-> diagnosis_report.auto_fixable]

\* ValidatorAgent.run
ValidatorRun(healing_report) ==
    [final_status |-> IF healing_report.success THEN "APPROVED" ELSE "REJECTED"]

\* run_autonomous_pipeline, after the monitor has answered.
PipelineResult(monitor_report) ==
    IF monitor_report.status = "PASS"
    THEN [final_status |-> "", status |-> monitor_report.status]
    ELSE IF ~DiagnoserRun(monitor_report).auto_fixable
         THEN [final_status |-> "MANUAL_INTERVENTION_REQUIRED", status |-> ""]
         ELSE [final_status |->
                   ValidatorRun(HealerRun(DiagnoserRun(monitor_report))).final_status,
               status |-> ""]

\* main: result.get('final_status') or result.get('status')
ExitCodeOf(result) ==
    LET status == IF result.final_status # "" THEN result.final_status
                  ELSE result.status
    IN  IF status \in {"APPROVED", "PASS", "PASS_WITH_WARNINGS"} THEN 0 ELSE 1

InitCli ==
    /\ cli_pc = "none"
    /\ cli = NoCli
    /\ exit_code = 0

\* main: a new process with a new MonitorAgent; a path that does not exist
\* ends the process at once with code 1.
CliMain(p, t) ==
    /\ cli_pc \in {"none", "exited"}
    /\ runs < MaxRuns
    /\ seen_hashes' = {}
    /\ execution_log' = <<>>
    /\ pc' = "idle"
    /\ run' = IdleRun
    /\ report' = NoReport
    /\ prev' = NoPrev
    /\ cli' = [NoCli EXCEPT !.file = p, !.table = t, !.runs_before = runs]
    /\ IF FileExists(p)
       THEN /\ cli_pc' = "monitor"
            /\ UNCHANGED exit_code
       ELSE /\ cli_pc' = "exited"
            /\ exit_code' = 1
    /\ UNCHANGED <<contracts, location, today, metrics_history, seasonal_patterns,
                   monthly_patterns, runs, start_snapshot>>
    /\ UNCHANGED notRunCliVars

\* monitor.run(file_path, table_name)
CliRunMonitor ==
    /\ cli_pc \in {"monitor", "rerun"}
    /\ runs = cli.runs_before
    /\ StartRun(cli.table, cli.file)

\* An exception out of monitor.run ends the process with a traceback.
CliRaised ==
    /\ cli_pc \in {"monitor", "rerun"}
    /\ runs > cli.runs_before
    /\ pc = "raised"
    /\ cli_pc' = "exited"
    /\ cli' = [cli EXCEPT !.ran = TRUE, !.monitor_status = "RAISED"]
    /\ exit_code' = 1
    /\ UNCHANGED notCliVars

\* Human in the loop: on CONTRACT_MISSING the draft is offered; "y" saves it
\* as the table's contract and runs the monitor again.
CliAfterMonitor(choice) ==
    /\ cli_pc \in {"monitor", "rerun"}
    /\ runs > cli.runs_before
    /\ pc = "done"
    /\ IF cli_pc = "monitor" /\ report.status = "CONTRACT_MISSING" /\ choice = "y"
       THEN /\ runs < MaxRuns
            /\ contracts' = [contracts EXCEPT ![cli.table] = InferredContract]
            /\ cli_pc' = "rerun"
            /\ cli' = [cli EXCEPT !.runs_before = runs]
       ELSE /\ cli_pc' = "decide"
            /\ UNCHANGED <<contracts, cli>>
    /\ UNCHANGED exit_code
    /\ UNCHANGED <<location, today, seen_hashes, metrics_history, seasonal_patterns,
                   monthly_patterns, execution_log, pc, run, report, runs,
                   start_snapshot, prev>>
    /\ UNCHANGED notRunCliVars

\* The rest of the pipeline and sys.exit.
CliExit ==
    /\ cli_pc = "decide"
    /\ exit_code' = ExitCodeOf(PipelineResult(report))
    /\ cli' = [cli EXCEPT !.ran = TRUE, !.monitor_status = report.status]
    /\ cli_pc' = "exited"
    /\ UNCHANGED notCliVars

NextCli ==
    \/ \E p \in Paths, t \in Tables : CliMain(p, t)
    \/ CliRunMonitor
    \/ \E a \in Ages : ProbeMetadata(a)
    \/ LoadData
    \/ ValidateSchema
    \/ InferContract
    \/ CheckConsistency
    \/ Profile
    \/ DetectDrift
    \/ SaveCurrentRun
    \/ DetectSeasonal
    \/ FinalVerdict
    \/ CliRaised
    \/ \E choice \in Choices : CliAfterMonitor(choice)
    \/ CliExit

(***************************************************************************)
(* Part VI  MonitorAgent.evaluate_all with intelligent scan scheduling     *)
(*          (src/src/agents/monitor_agent.py).     specification: SpecScan *)
(***************************************************************************)
MaxScanEvals == 2       \* evaluations of a data file in one behaviour
MaxMtime == 2           \* modification times run over 0..MaxMtime ticks

\* One tick of modification time is 5 ms; the epsilon of the scan, 0.01 s,
\* is two ticks.
MtimeTickMs == 5
EpsilonMs == 10

Lifecycles == {"active", "deprecated"}

\* discover_datasets: the data file found for each contract.
DataFileOf(d) == IF d = "clicks" THEN 5 ELSE 1

\* discover_datasets: sorted(contracts_path.glob("*.yaml"))
discover_datasets == <<"clicks", "transactions">>

NoScan == [skip_unchanged |-> FALSE, todo |-> <<>>, current |-> "none",
           results |-> [d \in Datasets |-> "NONE"]]

FileUnchangedExact(row, current_mtime) ==
    /\ row.present
    /\ row.last_file_mtime # NoMtime
    /\ current_mtime = row.last_file_mtime

\* row and row[0] is not None and abs(current_mtime - row[0]) < 0.01
FileUnchanged(row, current_mtime) ==
    /\ row.present
    /\ row.last_file_mtime # NoMtime
    /\ Abs(current_mtime - row.last_file_mtime) * MtimeTickMs < EpsilonMs

InitScan ==
    /\ mtime = [p \in Paths |-> 0]
    /\ lifecycle = [d \in Datasets |-> "active"]
    /\ scan_pc = "idle"
    /\ scan = NoScan

\* The data file of a dataset is written again.
Touch(d, m) ==
    /\ m # mtime[DataFileOf(d)]
    /\ mtime' = [mtime EXCEPT ![DataFileOf(d)] = m]
    /\ UNCHANGED <<lifecycle, scan_pc, scan>>
    /\ UNCHANGED notScanVars

\* info.lifecycle of a contract is edited.
SetLifecycle(d, l) ==
    /\ scan_pc \in {"idle", "finished"}
    /\ l # lifecycle[d]
    /\ lifecycle' = [lifecycle EXCEPT ![d] = l]
    /\ UNCHANGED <<mtime, scan_pc, scan>>
    /\ UNCHANGED notScanVars

\* evaluate_all: discover the datasets and start the loop.
EvaluateAll(skip_unchanged) ==
    /\ scan_pc \in {"idle", "finished"}
    /\ EvalAtRest
    /\ scan' = [NoScan EXCEPT !.skip_unchanged = skip_unchanged,
                              !.todo = discover_datasets]
    /\ scan_pc' = "loop"
    /\ UNCHANGED <<mtime, lifecycle>>
    /\ UNCHANGED notScanVars

\* One turn of the loop: skip a deprecated dataset or one without a data
\* file, short-circuit an unchanged one, evaluate the others.
ScanDataset ==
    /\ scan_pc = "loop"
    /\ scan.todo # <<>>
    /\ LET name == Head(scan.todo)
           data_file == DataFileOf(name)
       IN  IF lifecycle[name] = "deprecated" \/ ~FileExists(data_file)
           THEN /\ scan' = [scan EXCEPT !.results[name] = "SKIPPED",
                                        !.todo = Tail(@)]
                /\ UNCHANGED <<scan_pc, evalVars>>
           ELSE IF scan.skip_unchanged
                       /\ FileUnchanged(dataset_registry[name], mtime[data_file])
                THEN /\ scan' = [scan EXCEPT !.results[name] = "UNCHANGED",
                                             !.todo = Tail(@)]
                     /\ UNCHANGED <<scan_pc, evalVars>>
                ELSE /\ evals < MaxScanEvals
                     /\ BeginEvaluation(data_file, name)
                     /\ scan' = [scan EXCEPT !.current = name]
                     /\ scan_pc' = "evaluating"
    /\ UNCHANGED <<mtime, lifecycle>>
    /\ UNCHANGED notEvalScanVars

\* evaluate_data_file has returned: its verdict is the dataset's result.
CollectResult ==
    /\ scan_pc = "evaluating"
    /\ eval_pc = "done"
    /\ scan' = [scan EXCEPT !.results[scan.current] = verdict.status,
                            !.todo = Tail(@), !.current = "none"]
    /\ scan_pc' = "loop"
    /\ UNCHANGED <<mtime, lifecycle>>
    /\ UNCHANGED notScanVars

\* The loop is over: the summary and the results are returned.
FinishScan ==
    /\ scan_pc = "loop"
    /\ scan.todo = <<>>
    /\ scan_pc' = "finished"
    /\ UNCHANGED <<mtime, lifecycle, scan>>
    /\ UNCHANGED notScanVars

NextScan ==
    \/ \E d \in Datasets, m \in 0..MaxMtime : Touch(d, m)
    \/ \E d \in Datasets, l \in Lifecycles : SetLifecycle(d, l)
    \/ \E skip_unchanged \in BOOLEAN : EvaluateAll(skip_unchanged)
    \/ ScanDataset
    \/ CollectResult
    \/ FinishScan
    \/ StageA_Schema
    \/ StageA2_Profile
    \/ StageB_Anomaly
    \/ \E outcome \in LoadOutcomes : StageC_Load(outcome)
    \/ StageD_Record

(***************************************************************************)
(* Part VII The system tables under concurrent writers:                    *)
(*          AnomalyDetector.update_dataset_registry and                    *)
(*          save_learned_threshold (src/src/tools/anomaly_detector.py).    *)
(*          Every call opens its own connection and every statement is     *)
(*          its own transaction.                  specification: SpecStore *)
(***************************************************************************)
MaxCalls == 3           \* calls of each kind in one behaviour

\* The runs that write to the store at the same time.
Writers == {"run_a", "run_b"}

\* baseline_mean of the calls of save_learned_threshold.
ThresholdMeans == {1000, 1050}

\* fetchone() of a SELECT without a row.
NoRow == -1

IdleWriter == [pc |-> "idle", existing |-> NoRow, mean |-> 0]

InitStore ==
    /\ registry_rows = <<>>
    /\ threshold_rows = <<>>
    /\ writer = [w \in Writers |-> IdleWriter]
    /\ store_calls = [registry |-> 0, threshold |-> 0, raised |-> 0,
                      overlapped |-> FALSE, means |-> {}, last_mean |-> 0]

\* Some other writer is between the two statements of a call.
OtherBusy(w) == \E o \in Writers \ {w} : writer[o].pc # "idle"

\* update_dataset_registry, first statement:
\* SELECT scan_count FROM dataset_registry WHERE dataset_name = ?
RegistrySelect(w) ==
    /\ writer[w].pc = "idle"
    /\ store_calls.registry < MaxCalls
    /\ writer' = [writer EXCEPT ![w] =
                     [IdleWriter EXCEPT !.pc = "selected",
                                        !.existing = IF registry_rows = <<>> THEN NoRow
                                                     ELSE registry_rows[1].scan_count]]
    /\ store_calls' = [store_calls EXCEPT !.registry = @ + 1,
                                          !.overlapped = @ \/ OtherBusy(w)]
    /\ UNCHANGED <<registry_rows, threshold_rows>>
    /\ UNCHANGED notStoreVars

\* update_dataset_registry, second statement: UPDATE ... SET scan_count =
\* existing + 1 when the SELECT found a row, INSERT of a row with scan_count
\* 1 otherwise; dataset_name is the primary key, so an INSERT beside a row
\* written in the meantime raises.
RegistryWrite(w) ==
    /\ writer[w].pc = "selected"
    /\ IF writer[w].existing # NoRow
       THEN /\ registry_rows' = [i \in 1..Len(registry_rows) |->
                                    [scan_count |-> writer[w].existing + 1]]
            /\ UNCHANGED store_calls
       ELSE IF registry_rows = <<>>
            THEN /\ registry_rows' = <<[scan_count |-> 1]>>
                 /\ UNCHANGED store_calls
            ELSE /\ store_calls' = [store_calls EXCEPT !.raised = @ + 1]
                 /\ UNCHANGED registry_rows
    /\ writer' = [writer EXCEPT ![w] = IdleWriter]
    /\ UNCHANGED threshold_rows
    /\ UNCHANGED notStoreVars

\* save_learned_threshold, first statement:
\* DELETE FROM learned_thresholds WHERE dataset_name = ? AND metric_name = ?
ThresholdDelete(w, mean) ==
    /\ writer[w].pc = "idle"
    /\ store_calls.threshold < MaxCalls
    /\ threshold_rows' = <<>>
    /\ writer' = [writer EXCEPT ![w] = [IdleWriter EXCEPT !.pc = "deleted",
                                                          !.mean = mean]]
    /\ store_calls' = [store_calls EXCEPT !.threshold = @ + 1,
                                          !.overlapped = @ \/ OtherBusy(w),
                                          !.means = @ \cup {mean},
                                          !.last_mean = mean]
    /\ UNCHANGED registry_rows
    /\ UNCHANGED notStoreVars

\* save_learned_threshold, second statement: INSERT INTO learned_thresholds;
\* the table has no key.
ThresholdInsert(w) ==
    /\ writer[w].pc = "deleted"
    /\ threshold_rows' = Append(threshold_rows, [baseline_mean |-> writer[w].mean])
    /\ writer' = [writer EXCEPT ![w] = IdleWriter]
    /\ UNCHANGED <<registry_rows, store_calls>>
    /\ UNCHANGED notStoreVars

NextStore ==
    \/ \E w \in Writers : RegistrySelect(w)
    \/ \E w \in Writers : RegistryWrite(w)
    \/ \E w \in Writers, mean \in ThresholdMeans : ThresholdDelete(w, mean)
    \/ \E w \in Writers : ThresholdInsert(w)

(***************************************************************************)
(* Part VIII  MonitorAgent.run entered by two threads on one agent         *)
(*            (src/agents/monitor_agent.py): the execution state lives in  *)
(*            attributes of the agent.          specification: SpecThreads *)
(***************************************************************************)
MaxSteps == 3           \* tool steps of one run
MaxTime == 3            \* the clock runs over 0..MaxTime

\* The table each thread runs.
ThreadTable == [t1 |-> "orders", t2 |-> "events"]

Threads == DOMAIN ThreadTable

NoList == "none"

NoThreadReport == [execution_log |-> NoList, execution_time |-> 0]

IdleThread == [pc |-> "idle", steps |-> 0, own_start |-> 0, own_end |-> 0,
               report |-> NoThreadReport]

\* _log_step: the entry a thread appends for its next tool.
LogEntry(t, k) == [tool |-> StageOrder[k], result |-> ThreadTable[t]]

InitThreads ==
    /\ clock = 0
    /\ self_start_time = 0
    /\ self_execution_log = NoList
    /\ lists = [t \in Threads |-> <<>>]
    /\ thread = [t \in Threads |-> IdleThread]

\* Time passes.
ClockTick ==
    /\ clock < MaxTime
    /\ clock' = clock + 1
    /\ UNCHANGED <<self_start_time, self_execution_log, lists, thread>>
    /\ UNCHANGED notThreadVars

\* run(): self.start_time = datetime.now(); self.execution_log = []
ThreadStart(t) ==
    /\ thread[t].pc = "idle"
    /\ self_start_time' = clock
    /\ self_execution_log' = t
    /\ lists' = [lists EXCEPT ![t] = <<>>]
    /\ thread' = [thread EXCEPT ![t] = [IdleThread EXCEPT !.pc = "running",
                                                          !.own_start = clock]]
    /\ UNCHANGED clock
    /\ UNCHANGED notThreadVars

\* A tool has answered: _log_step appends to whatever list
\* self.execution_log is bound to at that moment.
ThreadLogStep(t) ==
    /\ thread[t].pc = "running"
    /\ thread[t].steps < MaxSteps
    /\ thread[t].steps < Len(StageOrder)
    /\ lists' = [lists EXCEPT ![self_execution_log] =
                    Append(@, LogEntry(t, thread[t].steps + 1))]
    /\ thread' = [thread EXCEPT ![t].steps = @ + 1]
    /\ UNCHANGED <<clock, self_start_time, self_execution_log>>
    /\ UNCHANGED notThreadVars

\* _generate_final_report after a STOP or after the last stage: the report
\* holds self.execution_log itself and now - self.start_time.
ThreadReturn(t) ==
    /\ thread[t].pc = "running"
    /\ thread[t].steps > 0
    /\ thread' = [thread EXCEPT ![t].pc = "done",
                                ![t].own_end = clock,
                                ![t].report =
                                    [execution_log |-> self_execution_log,
                                     execution_time |-> clock - self_start_time]]
    /\ UNCHANGED <<clock, self_start_time, self_execution_log, lists>>
    /\ UNCHANGED notThreadVars

NextThreads ==
    \/ ClockTick
    \/ \E t \in Threads : ThreadStart(t)
    \/ \E t \in Threads : ThreadLogStep(t)
    \/ \E t \in Threads : ThreadReturn(t)

(***************************************************************************)
(* Part IX  FileActuator (src/src/agents/file_actuator.py): the physical   *)
(*          movement of files.                  specification: SpecActuator *)
(***************************************************************************)
MaxMoves == 3           \* moves in one behaviour
MaxStamp == 2           \* the wall clock runs over 0..MaxStamp seconds

\* The data formats DataLoaderTool reads.
Suffixes == {".csv", ".parquet", ".json"}

Stems == {"good_file"}

\* A file name: stem, the stamp move_to_quarantine puts after the stem
\* (NoStamp when there is none), suffix, and the suffix of a sidecar.
NoStamp == -1

FileName(stem, stamp, suffix, sidecar) ==
    [stem |-> stem, stamp |-> stamp, suffix |-> suffix, sidecar |-> sidecar]

LandingFiles == {FileName(s, NoStamp, x, "") : s \in Stems, x \in Suffixes}

\* move_to_staging: self.staging_dir / source.name
StagingName(f) == f

\* destination.with_suffix(destination.suffix + '.meta.json')
MetadataName(destination) == [destination EXCEPT !.sidecar = ".meta.json"]

\* move_to_quarantine: f"{source.stem}_{timestamp}{source.suffix}"
QuarantineName(f, timestamp) == [f EXCEPT !.stamp = timestamp]

\* destination.with_suffix(destination.suffix + '.error.json')
ErrorReportName(destination) == [destination EXCEPT !.sidecar = ".error.json"]

\* Path.glob('*.csv'): the names that end in .csv.
GlobCsv(dir) == {f \in dir : f.sidecar = "" /\ f.suffix = ".csv"}

\* get_staging_files: self.staging_dir.glob('*.csv')
get_staging_files(dir) == GlobCsv(dir)

\* get_quarantined_files: self.quarantine_dir.glob('*.csv')
get_quarantined_files(dir) == GlobCsv(dir)

InitActuator ==
    /\ landing_dir = LandingFiles
    /\ staging_dir = {}
    /\ quarantine_dir = {}
    /\ wall_clock = 0
    /\ moves = 0

\* A second passes.
WallClockTick ==
    /\ wall_clock < MaxStamp
    /\ wall_clock' = wall_clock + 1
    /\ UNCHANGED <<landing_dir, staging_dir, quarantine_dir, moves>>
    /\ UNCHANGED notActuatorVars

\* A producer drops a file into the landing directory.
Land(f) ==
    /\ f \notin landing_dir
    /\ landing_dir' = landing_dir \cup {f}
    /\ UNCHANGED <<staging_dir, quarantine_dir, wall_clock, moves>>
    /\ UNCHANGED notActuatorVars

\* move_to_staging: shutil.move, then the metadata file beside it.
MoveToStaging(f) ==
    /\ f \in landing_dir
    /\ moves < MaxMoves
    /\ moves' = moves + 1
    /\ landing_dir' = landing_dir \ {f}
    /\ staging_dir' = staging_dir \cup {StagingName(f), MetadataName(StagingName(f))}
    /\ UNCHANGED <<quarantine_dir, wall_clock>>
    /\ UNCHANGED notActuatorVars

\* move_to_quarantine: shutil.move under a stamped name, then the error
\* report beside it.
MoveToQuarantine(f) ==
    /\ f \in landing_dir
    /\ moves < MaxMoves
    /\ moves' = moves + 1
    /\ landing_dir' = landing_dir \ {f}
    /\ LET destination == QuarantineName(f, wall_clock)
       IN  quarantine_dir' = quarantine_dir \cup {destination, ErrorReportName(destination)}
    /\ UNCHANGED <<staging_dir, wall_clock>>
    /\ UNCHANGED notActuatorVars

NextActuator ==
    \/ WallClockTick
    \/ \E f \in LandingFiles : Land(f)
    \/ \E f \in LandingFiles : MoveToStaging(f)
    \/ \E f \in LandingFiles : MoveToQuarantine(f)

(***************************************************************************)
(* Part X.  The schema tools on one DataFrame: StatsAnalysisTool.run,      *)
(* ContractGeneratorTool.run and SchemaValidatorTool.run, computed on the  *)
(* columns of the frame.  Text is a sequence of characters, so that the    *)
(* substring tests of the code are tests here.                             *)
(***************************************************************************)
MaxColumns == 2

S_int == <<"i", "n", "t">>
S_float == <<"f", "l", "o", "a", "t">>
S_bool == <<"b", "o", "o", "l">>
S_datetime == <<"d", "a", "t", "e", "t", "i", "m", "e">>
S_date == <<"d", "a", "t", "e">>
S_int64 == <<"i", "n", "t", "6", "4">>
S_int32 == <<"i", "n", "t", "3", "2">>
S_int16 == <<"i", "n", "t", "1", "6">>
S_int8 == <<"i", "n", "t", "8">>
S_float64 == <<"f", "l", "o", "a", "t", "6", "4">>
S_float32 == <<"f", "l", "o", "a", "t", "3", "2">>
S_object == <<"o", "b", "j", "e", "c", "t">>
S_string == <<"s", "t", "r", "i", "n", "g">>
S_varchar == <<"v", "a", "r", "c", "h", "a", "r">>
S_timestamp == <<"t", "i", "m", "e", "s", "t", "a", "m", "p">>
S_datetime64ns == <<"d", "a", "t", "e", "t", "i", "m", "e", "6", "4", "[", "n", "s", "]">>
S_INT64 == <<"I", "N", "T", "6", "4">>
S_varchar10 == <<"v", "a", "r", "c", "h", "a", "r", "(", "1", "0", ")">>

\* Python's "needle in s".
IsSubstring(needle, s) ==
    \E i \in 0..(Len(s) - Len(needle)) : SubSeq(s, i + 1, i + Len(needle)) = needle

LowerChar(c) ==
    CASE c = "I" -> "i"
      [] c = "N" -> "n"
      [] c = "T" -> "t"
      [] OTHER -> c

\* str.lower()
Lower(s) == [i \in 1..Len(s) |-> LowerChar(s[i])]

\* expected_lower.split('(')[0] when '(' is in the text
BeforeParen(s) ==
    IF \E i \in 1..Len(s) : s[i] = "("
    THEN LET first == CHOOSE i \in 1..Len(s) :
                          s[i] = "(" /\ \A j \in 1..(i - 1) : s[j] # "("
         IN  SubSeq(s, 1, first - 1)
    ELSE s

\* str.upper() on the severity words a contract carries.
Upper(word) ==
    CASE word = "critical" -> "CRITICAL"
      [] word = "warning" -> "WARNING"
      [] OTHER -> word

\* round(part / whole * 100, 2), in hundredths of a percent.
RoundPct(part, whole) == (part * 20000 + whole) \div (2 * whole)

ColNamePool == <<"id", "amount", "created_at", "note">>

ColNames == {ColNamePool[i] : i \in 1..MaxColumns}

Dtypes == {S_int64, S_int32, S_float64, S_object, S_bool, S_datetime64ns}

\* The dtypes numpy counts under np.number.
NumberDtypes == {S_int64, S_int32, S_float64}

\* The dtypes whose columns cannot hold a missing value.
NoNullDtypes == {S_int64, S_int32, S_bool}

\* A column: its dtype, how many of its values are missing, and how many
\* of its present values repeat an earlier one.
ColumnShapes ==
    {c \in [dtype : Dtypes, null_count : {0, 1}, repeated : {0, 1}] :
        c.dtype \in NoNullDtypes => c.null_count = 0}

RowCounts == {3, 100000}

Column(name, shape) ==
    [name |-> name, dtype |-> shape.dtype, null_count |-> shape.null_count,
     repeated |-> shape.repeated]

DataFrames ==
    {[rows |-> n, columns |-> {Column(name, f[name]) : name \in DOMAIN f}] :
        n \in RowCounts,
        f \in UNION {[names -> ColumnShapes] : names \in (SUBSET ColNames) \ {{}}}}

NoTable == [rows |-> 0, columns |-> {}]

\* df[col].nunique(): the distinct present values.
Nunique(df, c) == df.rows - c.null_count - c.repeated

\* df[col].duplicated().sum(): one missing value repeats nothing.
Duplicates(df, c) == c.repeated

\* StatsAnalysisTool.run: a profile for each column under np.number.
StatsAnalysisToolRun(df) ==
    {IF df.rows - c.null_count = 0
     THEN [name |-> c.name, null_pct |-> 10000, has_unique_pct |-> FALSE,
           unique_pct |-> 0]
     ELSE [name |-> c.name, null_pct |-> RoundPct(c.null_count, df.rows),
           has_unique_pct |-> TRUE,
           unique_pct |-> RoundPct(Nunique(df, c), df.rows)]
     : c \in {x \in df.columns : x.dtype \in NumberDtypes}}

\* The generator's type inference from the dtype text.
InferPhysicalType(dtype) ==
    IF IsSubstring(S_int, dtype) THEN S_int64
    ELSE IF IsSubstring(S_float, dtype) THEN S_float64
    ELSE IF IsSubstring(S_bool, dtype) THEN S_bool
    ELSE IF IsSubstring(S_datetime, dtype) THEN S_timestamp
    ELSE S_string

UniqueRule(severity) ==
    [metric |-> "unique", mustBeTrue |-> TRUE, mustBeNumber |-> 0,
     severity |-> severity]

NullRule(must_be, severity) ==
    [metric |-> "nullValues", mustBeTrue |-> FALSE, mustBeNumber |-> must_be,
     severity |-> severity]

Prop(name, physical_type, required, quality) ==
    [name |-> name, physicalType |-> physical_type, required |-> required,
     quality |-> quality]

\* ContractGeneratorTool.run: the draft contract of a frame and its profile.
ContractGeneratorToolRun(df, stats_profile) ==
    LET ColDef(c) ==
            LET stats == {s \in stats_profile : s.name = c.name}
                null_pct == IF stats = {} THEN 10000
                            ELSE (CHOOSE s \in stats : TRUE).null_pct
                unique_pct == IF stats = {} THEN 0
                              ELSE LET s == CHOOSE s \in stats : TRUE
                                   IN  IF s.has_unique_pct THEN s.unique_pct ELSE 0
            IN  Prop(c.name, InferPhysicalType(c.dtype), null_pct = 0,
                     IF unique_pct >= 9990
                     THEN {UniqueRule(IF unique_pct = 10000 THEN "critical"
                                      ELSE "warning")}
                     ELSE {})
    IN  [schema |-> TRUE, strictMode |-> FALSE,
         properties |-> {ColDef(c) : c \in df.columns}]

TypeMapKeys == {S_int, S_int64, S_float, S_float64, S_string, S_varchar, S_bool,
                S_timestamp, S_date}

type_map ==
    [key \in TypeMapKeys |->
        CASE key = S_int -> {S_int64, S_int32, S_int16, S_int8}
          [] key = S_int64 -> {S_int64}
          [] key = S_float -> {S_float64, S_float32}
          [] key = S_float64 -> {S_float64}
          [] key = S_string -> {S_object, S_string}
          [] key = S_varchar -> {S_object}
          [] key = S_bool -> {S_bool}
          [] key = S_timestamp -> {S_datetime64ns, S_object}
          [] OTHER -> {S_datetime64ns, S_object}]

\* SchemaValidatorTool._types_match
TypesMatch(expected, actual) ==
    LET expected_lower == BeforeParen(Lower(expected))
    IN  IF expected_lower \in TypeMapKeys
        THEN \E v \in type_map[expected_lower] : IsSubstring(v, actual)
        ELSE IsSubstring(Lower(expected), Lower(actual))

\* SchemaValidatorTool._check_rule: TRUE when the rule reports a violation.
CheckRule(df, c, rule) ==
    CASE rule.metric = "nullValues" ->
             IF rule.mustBeNumber = 0
             THEN c.null_count > 0
             ELSE c.null_count * 100 > rule.mustBeNumber * df.rows
      [] rule.metric = "unique" -> rule.mustBeTrue /\ Duplicates(df, c) > 0
      [] OTHER -> FALSE

Violation(column, issue, severity) ==
    [column |-> column, issue |-> issue, severity |-> severity]

\* The severity of a missing column, with the strict-mode escalation.
MissingSeverity(prop, strict_mode) ==
    IF prop.required \/ strict_mode THEN "CRITICAL" ELSE "WARNING"

ExtraSeverity(strict_mode) == IF strict_mode THEN "CRITICAL" ELSE "WARNING"

\* The severity of a quality rule: the rule's own word in upper case,
\* WARNING when the rule has none, escalated in strict mode.
RuleSeverity(rule, strict_mode) ==
    LET rule_severity == IF rule.severity = "" THEN "WARNING" ELSE Upper(rule.severity)
    IN  IF strict_mode /\ rule_severity = "WARNING" THEN "CRITICAL" ELSE rule_severity

\* The violations the three passes of the validator append.
ViolationsOf(df, contract) ==
    LET actual_cols == {c.name : c \in df.columns}
        expected_cols == {prop.name : prop \in contract.properties}
        strict_mode == contract.strictMode
        missing == {Violation(prop.name, "missing", MissingSeverity(prop, strict_mode)) :
                       prop \in {q \in contract.properties : q.name \notin actual_cols}}
        extra == {Violation(name, "extra", ExtraSeverity(strict_mode)) :
                     name \in actual_cols \ expected_cols}
        present == {pair \in contract.properties \X df.columns : pair[1].name = pair[2].name}
        mismatch == {Violation(pair[1].name, "type_mismatch", "CRITICAL") :
                        pair \in {x \in present :
                                   /\ x[1].physicalType # <<>>
                                   /\ ~TypesMatch(x[1].physicalType, x[2].dtype)}}
        rules == UNION {{Violation(pair[1].name, "quality_rule",
                                   RuleSeverity(rule, strict_mode)) :
                            rule \in {r \in pair[1].quality : CheckRule(df, pair[2], r)}} :
                        pair \in present}
    IN  missing \cup extra \cup mismatch \cup rules

\* The has_critical flag, set wherever the code sets it.
HasCriticalFlag(df, contract) ==
    LET actual_cols == {c.name : c \in df.columns}
        expected_cols == {prop.name : prop \in contract.properties}
        strict_mode == contract.strictMode
        present == {pair \in contract.properties \X df.columns : pair[1].name = pair[2].name}
    IN  \/ \E prop \in contract.properties :
              prop.name \notin actual_cols /\ MissingSeverity(prop, strict_mode) = "CRITICAL"
        \/ actual_cols \ expected_cols # {} /\ ExtraSeverity(strict_mode) = "CRITICAL"
        \/ \E pair \in present :
              pair[1].physicalType # <<>> /\ ~TypesMatch(pair[1].physicalType, pair[2].dtype)
        \/ \E pair \in present : \E rule \in pair[1].quality :
              CheckRule(df, pair[2], rule) /\ RuleSeverity(rule, strict_mode) = "CRITICAL"

\* A decision that stops on any violation.
FinalDecisionStopsOnAny(has_critical, violations) ==
    IF violations # {}
    THEN [status |-> "FAIL", decision |-> "CRITICAL_STOP"]
    ELSE [status |-> "PASS", decision |-> "CONTINUE"]

\* The final decision of the validator.
FinalDecision(has_critical, violations) ==
    IF has_critical
    THEN [status |-> "FAIL", decision |-> "CRITICAL_STOP"]
    ELSE IF violations # {}
    THEN [status |-> "PASS_WITH_WARNINGS", decision |-> "CONTINUE"]
    ELSE [status |-> "PASS", decision |-> "CONTINUE"]

\* SchemaValidatorTool.run on a frame and the contract the file holds.
SchemaValidatorRun(df, contract) ==
    IF ~contract.schema
    THEN [status |-> "FAIL", violations |-> {}, decision |-> "CRITICAL_STOP"]
    ELSE LET violations == ViolationsOf(df, contract)
             final == FinalDecision(HasCriticalFlag(df, contract), violations)
         IN  [status |-> final.status, violations |-> violations,
              decision |-> final.decision]

\* The contracts written by hand that the validator is given.
WrittenContracts ==
    {[schema |-> FALSE, strictMode |-> FALSE, properties |-> {}],
     [schema |-> TRUE, strictMode |-> TRUE,
      properties |-> {Prop("id", S_INT64, FALSE, {})}],
     [schema |-> TRUE, strictMode |-> FALSE,
      properties |-> {Prop("id", S_int, TRUE, {UniqueRule("critical")}),
                      Prop("amount", S_float, FALSE, {NullRule(0, "")})}],
     [schema |-> TRUE, strictMode |-> FALSE,
      properties |-> {Prop("amount", <<>>, FALSE,
                           {NullRule(50, "CRITICAL"), UniqueRule("warning")})}],
     [schema |-> TRUE, strictMode |-> FALSE,
      properties |-> {Prop("id", S_varchar10, FALSE, {})}]}

NoContractFile == [schema |-> FALSE, strictMode |-> FALSE, properties |-> {"none"}]

NoValidation == [status |-> "none", violations |-> {}, decision |-> "none"]

InitSchema ==
    /\ table_x = NoTable
    /\ contract_k = NoContractFile
    /\ draft_of = NoTable
    /\ validation = NoValidation

\* DataLoaderTool.run has returned the frame X.
LoadTable(X) ==
    /\ table_x = NoTable
    /\ table_x' = X
    /\ UNCHANGED <<contract_k, draft_of, validation>>
    /\ UNCHANGED notSchemaVars

\* The contract-missing branch of MonitorAgent.run: profile the frame and
\* infer the draft contract from the profile.
InferDraft ==
    /\ table_x # NoTable
    /\ contract_k = NoContractFile
    /\ contract_k' = ContractGeneratorToolRun(table_x, StatsAnalysisToolRun(table_x))
    /\ draft_of' = table_x
    /\ UNCHANGED <<table_x, validation>>
    /\ UNCHANGED notSchemaVars

\* A contract written by hand is in the contract file.
WriteContractFile(K) ==
    /\ table_x # NoTable
    /\ contract_k = NoContractFile
    /\ contract_k' = K
    /\ UNCHANGED <<table_x, draft_of, validation>>
    /\ UNCHANGED notSchemaVars

\* SchemaValidatorTool.run on the frame and the contract file.
ValidateTable ==
    /\ table_x # NoTable
    /\ contract_k # NoContractFile
    /\ validation = NoValidation
    /\ validation' = SchemaValidatorRun(table_x, contract_k)
    /\ UNCHANGED <<table_x, contract_k, draft_of>>
    /\ UNCHANGED notSchemaVars

NextSchema ==
    \/ table_x = NoTable /\ \E X \in DataFrames : LoadTable(X)
    \/ InferDraft
    \/ \E K \in WrittenContracts : WriteContractFile(K)
    \/ ValidateTable

(***************************************************************************)
(* Part XI.  MonitorAgent._record_run with a system-table write that can   *)
(* fail: the whole body is one try block, so an exception in one call      *)
(* skips the calls after it.                                               *)
(***************************************************************************)
MaxRecords == 2

\* Where DuckDB raises during the recording.
RecordFaults == {"none", "save_run_to_history", "update_dataset_registry"}

\* The verdicts evaluate_data_file hands to _record_run.
RecordVerdicts ==
    {[NoVerdict EXCEPT !.status = s] : s \in {"PASSED", "WARNING", "BLOCKED"}}

NoRecord == [dataset |-> "none", status_in |-> "NONE", fault |-> "none",
             alerts_before |-> 0, returned |-> NoVerdict]

InitRecord ==
    /\ alert_calls = <<>>
    /\ recorded = NoRecord
    /\ record_calls = 0

\* The calls of the try block that were reached before the exception.
HistorySaved(fault) == fault # "save_run_to_history"

AlertSent(fault) == fault # "save_run_to_history"

RegistryUpdated(fault) == fault = "none"

\* _record_run(dataset_name, verdict, file_path, start_time), followed by
\* the return of the verdict from evaluate_data_file.
RecordRun(d, v, p, fault) ==
    /\ record_calls < MaxRecords
    /\ record_calls' = record_calls + 1
    /\ run_history' = IF HistorySaved(fault)
                      THEN save_run_to_history(run_history, d, v)
                      ELSE run_history
    /\ alert_calls' = IF AlertSent(fault)
                      THEN Append(alert_calls, [dataset |-> d, status |-> v.status,
                                                criticality |-> get_downstream_impact(d)])
                      ELSE alert_calls
    /\ dataset_registry' = IF RegistryUpdated(fault)
                           THEN update_dataset_registry(dataset_registry, d, v.status,
                                                        StatMtime(p))
                           ELSE dataset_registry
    /\ recorded' = [dataset |-> d, status_in |-> v.status, fault |-> fault,
                    alerts_before |-> Len(alert_calls), returned |-> v]
    /\ UNCHANGED <<metric_history, schema_passes, eval_pc, verdict, eval, evals>>
    /\ UNCHANGED notEvalRecVars

NextRecord ==
    \E d \in Datasets, v \in RecordVerdicts, p \in {MissingFile, 1}, fault \in RecordFaults :
        RecordRun(d, v, p, fault)

(***************************************************************************)
(* Part XII.  Step 5.5 of MonitorAgent.run over a series of passing runs:  *)
(* check_anomaly on the row count of the run, then learn_patterns on the   *)
(* one record of the run.                                                  *)
(***************************************************************************)
MaxPasses == 3

MaxWeeks == 2

\* The row counts of the files that pass.
PassingRowCounts == {10, 12}

InitSeasonal ==
    /\ passing_runs = <<>>
    /\ last_seasonal = NoResult

\* A run of table t on a file of the given row count has passed the schema
\* and consistency stages and reaches step 5.5.
SeasonalStep(t, rows) ==
    /\ Len(passing_runs) < MaxPasses
    /\ LET res == check_anomaly(t, "row_count", rows, today,
                                seasonal_patterns, monthly_patterns)
           learnt == learn_patterns(t, "row_count",
                                    <<[day |-> today, value |-> rows]>>)
       IN  /\ last_seasonal' = res
           /\ seasonal_patterns' = seasonal_patterns \o learnt.seasonal
           /\ monthly_patterns' = monthly_patterns \o learnt.monthly
    /\ passing_runs' = Append(passing_runs, [table |-> t, day |-> today, value |-> rows])
    /\ UNCHANGED today
    /\ UNCHANGED <<contracts, location, seen_hashes, metrics_history, execution_log,
                   pc, run, report, runs, start_snapshot, prev>>
    /\ UNCHANGED notRunSeasVars

\* The calendar moves on by a week, or by a week and a day.
SeasonalCalendar(d) ==
    /\ today + d <= 7 * MaxWeeks
    /\ today' = today + d
    /\ UNCHANGED <<passing_runs, last_seasonal>>
    /\ UNCHANGED runOnlyVars
    /\ UNCHANGED notRunSeasVars

NextSeasonal ==
    \/ \E t \in Tables, rows \in PassingRowCounts : SeasonalStep(t, rows)
    \/ \E d \in {7, 8} : SeasonalCalendar(d)

(***************************************************************************)
(* The specifications.                                                     *)
(***************************************************************************)
Init == InitRun /\ InitEval /\ InitRemediator /\ InitContract /\ InitCli /\ InitScan
        /\ InitStore /\ InitThreads /\ InitActuator /\ InitSchema /\ InitRecord /\ InitSeasonal

Spec == Init /\ [][NextRun]_vars

SpecEval == Init /\ [][NextEval]_vars

SpecRemediator == Init /\ [][NextRemediator]_vars

SpecContract == Init /\ [][NextContract]_vars

SpecCli == Init /\ [][NextCli]_vars

SpecScan == Init /\ [][NextScan]_vars

SpecStore == Init /\ [][NextStore]_vars

SpecThreads == Init /\ [][NextThreads]_vars

SpecActuator == Init /\ [][NextActuator]_vars

SpecSchema == Init /\ [][NextSchema]_vars

SpecRecord == Init /\ [][NextRecord]_vars

SpecSeasonal == Init /\ [][NextSeasonal]_vars

(***************************************************************************)
(* Properties of the remediator and of the contract archive.               *)
(***************************************************************************)
\* C9: the text returned by propose_schema_update declares every column
\* name the current contract declares; a proposal that would remove a
\* column is never returned.
C9_ProposalKeepsColumns == ColumnsOf(current_yaml) \subseteq ColumnsOf(returned_yaml)

\* The directory an apply copies into.
ArchiveOf(kind) == IF kind = "remediate_schema" THEN backups ELSE archive

\* C10: each apply that replaces the active contract file has added exactly
\* one new entry to the archive, and that entry holds the contract as it
\* was immediately before the apply.
C10_EveryApplyArchivesOnce ==
    last_apply.replaced =>
        LET dir == ArchiveOf(last_apply.kind)
            added == DOMAIN dir \ last_apply.names_before
        IN  /\ Cardinality(added) = 1
            /\ \A n \in added : dir[n] = last_apply.pre_apply

(***************************************************************************)
(* Further properties of MonitorAgent.run.                                 *)
(***************************************************************************)
\* C11: MonitorAgent.run never propagates an exception to its caller; a
\* consistency check that answers ERROR, or FAIL without orphan counts,
\* still ends in a returned report.
C11_RunNeverRaises == pc # "raised"

(***************************************************************************)
(* Properties of the command line.                                         *)
(***************************************************************************)
\* C12: a command-line run exits with code 0 if and only if the status of
\* the Monitor run is PASS or PASS_WITH_WARNINGS; for every other status,
\* FAIL and CONTRACT_MISSING included, it exits non-zero.
C12_ExitZeroIffPass ==
    (cli_pc = "exited" /\ cli.ran) =>
        (exit_code = 0 <=> cli.monitor_status \in {"PASS", "PASS_WITH_WARNINGS"})

(***************************************************************************)
(* Further properties of evaluate_data_file.                               *)
(***************************************************************************)
\* The baseline the run in progress is measured against.
RunBaseline ==
    get_seasonal_baseline(metric_history, eval.dataset, "row_count", today)

\* The run in progress has passed the quality gate and left the load stage
\* with the load succeeding, or skipped by the block of the anomaly stage.
GatePassedLoadDone ==
    /\ eval_pc = "stage_d"
    /\ eval.file # MissingFile
    /\ EvalContent(eval.file).quality >= Thresholds(eval.dataset).qs_warn
    /\ verdict.load_status \in {"Success", "SKIPPED (Blocked by Agent)"}

\* C13: with z_warn <= z_crit from the contract, a run whose largest |z| is
\* m ends PASSED when m < z_warn, WARNING when z_warn <= m <= z_crit,
\* BLOCKED when m > z_crit on a HIGH or CRITICAL dataset and WARNING when
\* m > z_crit on a LOW or MEDIUM dataset.
C13_VerdictFollowsZ ==
    GatePassedLoadDone =>
        LET t == Thresholds(eval.dataset)
            rows == EvalContent(eval.file).rows
            b == RunBaseline
            criticality == get_downstream_impact(eval.dataset)
        IN  verdict.status =
                IF ~ZAtLeast(rows, b, t.z_warn, 100) THEN "PASSED"
                ELSE IF ~ZAbove(rows, b, t.z_critical, 100) THEN "WARNING"
                ELSE IF criticality \in {"HIGH", "CRITICAL"} THEN "BLOCKED"
                ELSE "WARNING"

\* C14: a run for a table whose contract cannot be located, on a file that
\* exists and can be loaded, ends with status CONTRACT_MISSING, no critical
\* errors and an inferred contract, whatever the age of the file and whether
\* or not its hash was seen before.
C14_MissingContractEndsInDraft ==
    (Returned /\ ~run.found /\ FileExists(run.file)
              /\ ~LoadStops(DataLoaderToolRun(run.file))) =>
        /\ report.status = "CONTRACT_MISSING"
        /\ report.critical_errors = <<>>
        /\ report.inferred_contract

(***************************************************************************)
(* Properties of evaluate_all.                                             *)
(***************************************************************************)
\* The dataset the loop of evaluate_all visits next.
NextDataset == Head(scan.todo)

\* evaluate_all(skip_unchanged=True) is about to visit a dataset whose
\* earlier evaluation has recorded a modification time.
VisitsRecorded ==
    /\ scan_pc = "loop"
    /\ scan.todo # <<>>
    /\ scan.skip_unchanged
    /\ dataset_registry[NextDataset].present
    /\ dataset_registry[NextDataset].last_file_mtime # NoMtime

\* The data file of the next dataset is within 10 ms of the recorded mtime.
WithinEpsilon ==
    Abs(mtime[DataFileOf(NextDataset)]
            - dataset_registry[NextDataset].last_file_mtime) * MtimeTickMs < EpsilonMs

\* What the visit does: UNCHANGED without an evaluation and without a new
\* run_history row when the file is within the epsilon, an evaluation of the
\* dataset otherwise.
VisitFollowsMtime ==
    IF WithinEpsilon
    THEN /\ scan'.results[NextDataset] = "UNCHANGED"
         /\ evals' = evals
         /\ run_history' = run_history
         /\ UNCHANGED eval_pc
    ELSE /\ evals' = evals + 1
         /\ eval'.dataset = NextDataset
         /\ scan_pc' = "evaluating"

StoreQuiet == \A w \in Writers : writer[w].pc = "idle"

\* C16: after k calls of update_dataset_registry for one table, in any
\* interleaving, dataset_registry holds exactly one row for the table and
\* its scan_count is k.
C16_ScanCountIsCalls ==
    (StoreQuiet /\ store_calls.registry > 0) =>
        /\ Len(registry_rows) = 1
        /\ registry_rows[1].scan_count = store_calls.registry

\* C17: after any interleaving of save_learned_threshold calls for one
\* (table, metric), learned_thresholds holds exactly one row for the pair,
\* with the values of one of the calls, the last one when the calls did
\* not overlap.
C17_OneThresholdRow ==
    (StoreQuiet /\ store_calls.threshold > 0) =>
        /\ Len(threshold_rows) = 1
        /\ threshold_rows[1].baseline_mean \in store_calls.means
        /\ ~store_calls.overlapped =>
               threshold_rows[1].baseline_mean = store_calls.last_mean

(***************************************************************************)
(* Properties of concurrent runs on one agent.                             *)
(***************************************************************************)
\* The steps a thread's run has logged, as the run alone would hold them.
OwnLog(t) == [k \in 1..thread[t].steps |-> LogEntry(t, k)]

\* C18: of two runs on different tables executing concurrently on one
\* MonitorAgent, each returned report has exactly the steps of its own run
\* in execution_log and an execution_time measured from its own start.
C18_ReportsAreIndependent ==
    \A t \in Threads :
        thread[t].pc = "done" =>
            /\ lists[thread[t].report.execution_log] = OwnLog(t)
            /\ thread[t].report.execution_time = thread[t].own_end - thread[t].own_start

(***************************************************************************)
(* The boundary of the freshness check.                                    *)
(***************************************************************************)
\* C19: the metadata probe of an existing file not seen before classifies
\* it as stale, with decision STOP, whenever its age is at or above the
\* freshness limit, an age of exactly the limit included, and as fresh
\* only when its age is strictly below the limit.
C19_AgeAtLimitIsStale ==
    [][\A age_hours \in Ages :
          (/\ ProbeMetadata(age_hours)
           /\ FileExists(run.file)
           /\ run.file \notin seen_hashes)
          => IF age_hours >= run.freshness_limit
             THEN run'.metadata.status = "stale" /\ run'.metadata.decision = "STOP"
             ELSE run'.metadata.status = "fresh"]_vars

(***************************************************************************)
(* Properties of the file actuator.                                        *)
(***************************************************************************)
\* C20: for every landing file of a supported format, after move_to_staging
\* the original path is gone, get_staging_files lists the moved file and
\* its metadata sidecar lies beside it; after move_to_quarantine the
\* original path is gone, get_quarantined_files lists the moved file and
\* its error sidecar lies beside it.
C20_MovedFileIsListed ==
    [][\A f \in LandingFiles :
          /\ MoveToStaging(f) =>
                 /\ f \notin landing_dir'
                 /\ StagingName(f) \in get_staging_files(staging_dir')
                 /\ MetadataName(StagingName(f)) \in staging_dir'
          /\ MoveToQuarantine(f) =>
                 /\ f \notin landing_dir'
                 /\ QuarantineName(f, wall_clock) \in get_quarantined_files(quarantine_dir')
                 /\ ErrorReportName(QuarantineName(f, wall_clock)) \in quarantine_dir'
      ]_vars

(***************************************************************************)
(* Properties of the schema tools.                                         *)
(***************************************************************************)
\* The validator has answered on a frame and the draft inferred from it.
ValidatedAgainstOwnDraft ==
    /\ validation # NoValidation
    /\ table_x # NoTable
    /\ draft_of = table_x

\* C21: validating a loaded table against the draft contract inferred from
\* its own profile yields no CRITICAL violation: the decision is CONTINUE
\* and every violation reported is a warning.
C21_OwnDraftNeverStops ==
    ValidatedAgainstOwnDraft =>
        /\ validation.decision = "CONTINUE"
        /\ \A v \in validation.violations : v.severity # "CRITICAL"

\* C22: a run whose overall quality score equals quality_score_block
\* leaves the quality gate with the blocking verdict; only a score above
\* the block threshold escapes the block.
C22_ScoreAtBlockIsBlocked ==
    [][(/\ eval_pc = "stage_a2"
        /\ eval_pc' # "stage_a2"
        /\ EvalContent(eval.file).quality = Thresholds(eval.dataset).qs_block)
       => verdict'.status = "BLOCKED"]_vars

\* The validator has answered on a frame and a contract.
Validated == validation # NoValidation /\ table_x # NoTable

\* The violations list holds a violation of severity CRITICAL.
HasCriticalViolation == \E v \in validation.violations : v.severity = "CRITICAL"

\* C23: for every DataFrame and contract, SchemaValidatorTool.run returns
\* decision CRITICAL_STOP exactly when its violations list holds a
\* violation of severity CRITICAL, and CONTINUE in every other case.
C23_StopIffCritical ==
    Validated =>
        /\ validation.decision = "CRITICAL_STOP" <=> HasCriticalViolation
        /\ validation.decision \in {"CRITICAL_STOP", "CONTINUE"}

\* C23, for a contract that has a schema list: the decision is
\* CRITICAL_STOP exactly when the violations list holds a violation of
\* severity CRITICAL, and CONTINUE in every other case.
C23_StopIffCriticalWithSchema ==
    (Validated /\ contract_k.schema) =>
        /\ validation.decision = "CRITICAL_STOP" <=> HasCriticalViolation
        /\ validation.decision \in {"CRITICAL_STOP", "CONTINUE"}

\* The validator continued past warnings on a contract with a schema list.
C23_Witness ==
    /\ Validated
    /\ contract_k.schema
    /\ validation.decision = "CONTINUE"
    /\ validation.violations # {}

\* The validator stopped on a critical quality rule beside a warning.
C23_WitnessStop ==
    /\ Validated
    /\ contract_k.schema
    /\ validation.decision = "CRITICAL_STOP"
    /\ \E v \in validation.violations : v.severity = "WARNING"
    /\ \E v \in validation.violations : v.issue = "quality_rule" /\ v.severity = "CRITICAL"

(***************************************************************************)
(* Properties of the consistency stage.                                    *)
(***************************************************************************)
\* The consistency stage of the run has answered on a contract with
\* foreignKeys entries, one of which has an orphan row in the file.
OrphanUnderSomeEntry ==
    /\ run.consistency # NoResult
    /\ contracts[run.table].found
    /\ contracts[run.table].nfk >= 1
    /\ \E i \in 1..contracts[run.table].nfk :
          /\ FileContent(run.file).fk[i] = "orphans"
          /\ FileContent(run.file).orphans[i] > 0

\* C24: for a contract with one or more foreignKeys entries, when any one
\* entry has a child row whose key is absent from its reference table, the
\* consistency check returns FAIL with decision CRITICAL_STOP and the run
\* ends FAIL.
C24_AnyOrphanFailsRun ==
    OrphanUnderSomeEntry =>
        /\ run.consistency.status = "FAIL"
        /\ run.consistency.decision = "CRITICAL_STOP"
        /\ pc = "done"
        /\ report.status = "FAIL"

\* C25: no move_to_quarantine call overwrites a file quarantined before it
\* or that file's error report, two files of one base name within one
\* second included: each call adds one file and one error report to the
\* quarantine directory.
C25_QuarantineNeverOverwrites ==
    [][\A f \in LandingFiles :
          MoveToQuarantine(f) =>
              /\ QuarantineName(f, wall_clock) \notin quarantine_dir
              /\ ErrorReportName(QuarantineName(f, wall_clock)) \notin quarantine_dir
              /\ Cardinality(quarantine_dir') = Cardinality(quarantine_dir) + 2
      ]_vars

(***************************************************************************)
(* Properties of the recording of a run.                                   *)
(***************************************************************************)
\* C26: when a write to the baseline store fails while a run is recorded,
\* the verdict is still returned with its status unchanged and the alert
\* for that verdict is still handed to the router.
C26_FailedWriteStillAlerts ==
    (recorded # NoRecord /\ recorded.fault # "none") =>
        /\ recorded.returned.status = recorded.status_in
        /\ Len(alert_calls) = recorded.alerts_before + 1
        /\ alert_calls[Len(alert_calls)].status = recorded.status_in

(***************************************************************************)
(* Properties of the order of the history write and the verdict.           *)
(***************************************************************************)
\* C27: in every MonitorAgent.run the metrics of the run are written to the
\* history store only once the final status, PASS or PASS_WITH_WARNINGS,
\* has been determined: no history write precedes the verdict.
C27_HistoryWrittenAfterVerdict ==
    [][metrics_history' # metrics_history
       => /\ pc' = "done"
          /\ report'.status \in {"PASS", "PASS_WITH_WARNINGS"}]_vars

(***************************************************************************)
(* Properties of the seasonal pattern store.                               *)
(***************************************************************************)
\* The passing runs of table t on weekday w.
PassesOn(t, w) ==
    {i \in 1..Len(passing_runs) :
        passing_runs[i].table = t /\ Weekday(passing_runs[i].day) = w}

\* C28: each passing run contributes its row count to the seasonal pattern
\* store: after three passing runs of one table on the same weekday a
\* day-of-week pattern exists for the table's row_count and check_anomaly
\* no longer answers that the historical data is insufficient.
C28_ThreePassesMakeAPattern ==
    \A t \in Tables, w \in 0..6 :
        Cardinality(PassesOn(t, w)) >= MinDowSamples =>
            LET i == CHOOSE j \in PassesOn(t, w) : TRUE
            IN  /\ FetchOne(seasonal_patterns, t, "row_count", w) # <<>>
                /\ check_anomaly(t, "row_count", passing_runs[i].value,
                                 passing_runs[i].day, seasonal_patterns,
                                 monthly_patterns).severity # "UNKNOWN"

(***************************************************************************)
(* Properties of the verdict within one evaluation.                        *)
(***************************************************************************)
\* PASSED < WARNING < BLOCKED
SeverityRank(status) ==
    CASE status = "PASSED" -> 0
      [] status = "WARNING" -> 1
      [] status = "BLOCKED" -> 2
      [] OTHER -> -1

\* C29: within one evaluate_data_file run the verdict status never
\* decreases in severity: once a stage has set WARNING no later stage sets
\* PASSED, and once a stage has set BLOCKED no later stage sets WARNING or
\* PASSED.
C29_StatusNeverDecreases ==
    [][eval_pc \notin {"idle", "done"}
       => SeverityRank(verdict'.status) >= SeverityRank(verdict.status)]_vars

\* The quality gate set WARNING, and the anomaly stage and the load have
\* acted after it.
C29_Witness ==
    /\ eval_pc = "stage_d"
    /\ eval.file # MissingFile
    /\ EvalContent(eval.file).quality < Thresholds(eval.dataset).qs_warn
    /\ eval.status_at_load = "WARNING"
    /\ verdict.status = "WARNING"
    /\ verdict.load_status = "Success"

(***************************************************************************)
(* Properties of the approval of a draft contract.                         *)
(***************************************************************************)
\* The re-run that follows the approval of the draft has returned.
RerunReturned ==
    /\ cli_pc = "rerun"
    /\ runs > cli.runs_before
    /\ pc = "done"

\* C30: after a CONTRACT_MISSING run whose draft the user approves, the
\* re-run of the same file is validated against the saved contract: it
\* reaches schema validation and is not stopped at the metadata probe.
C30_RerunReachesSchemaValidation ==
    RerunReturned =>
        /\ run.metadata.decision = "CONTINUE"
        /\ run.schema # NoResult

============================================================================
